---- MODULE Spec2Model ----
(***************************************************************************)
(* Model of the phiacta-verify pipeline: the Redis-Streams job queue       *)
(* (queue/redis_queue.py), the worker loop (worker.py) and the container   *)
(* sandbox lifecycle (sandbox/container.py).                               *)
(*                                                                         *)
(* Every coroutine is modelled at the granularity of its awaits: a value   *)
(* of pc names the await the coroutine is suspended at, and one action     *)
(* performs that await together with the synchronous code up to the next   *)
(* one.  A backend call may succeed or raise; a task may be cancelled at   *)
(* the await it is suspended at.                                           *)
(***************************************************************************)
EXTENDS Integers, Sequences, FiniteSets, TLC

\* ------------------------------------------------------------------ bounds
\* Number of jobs submitted through enqueue.
NJobs == 1

Jobs == 1..NJobs
\* Two consumers of the group verify-workers (consumer_name of run_worker).
Workers == {"worker-1", "worker-2"}

\* The job id carried by a stream entry that this release cannot deserialise.
LegacyJob == NJobs + 1
JobIds == {LegacyJob} \cup Jobs

\* -------------------------------------------------------------- vocabulary
\* JobStatus values that are written to verify:jobs:status:{id}; "NONE" is an
\* absent key.
Terminal == {"COMPLETED", "FAILED", "TIMED_OUT", "CANCELLED"}

\* The awaits of process_job.
InProcessJob == {"running", "sandbox", "store_result", "store_status"}

VARIABLES
    \* --- Redis
    stream,         \* verify:jobs:stream: sequence of [job, ok]
    groupExists,    \* the consumer group verify-workers exists
    lastDelivered,  \* the group's last-delivered id (index into stream)
    pel,            \* the group's pending entries (delivered, not acked)
    jobData,        \* verify:jobs:data:{id}: the enqueue call whose dump of
                    \* the job the key holds (0: absent key)
    jobsIndex,      \* members of the sorted set verify:jobs:index
    status,         \* verify:jobs:status:{id}
    result,         \* verify:jobs:result:{id}: the stored result, or NoResult
    \* --- submitters (one enqueue call per job id)
    subPc,          \* the await of enqueue the call for the id is at
    enqCalls,       \* number of enqueue calls made with the id
    \* --- workers
    pc,             \* the await run_worker is suspended at
    cur,            \* msg_id of the for loop (0: none)
    sres,           \* sandbox_result held by process_job
    exc,            \* exception in flight in the for-loop body
    cancelledAt,    \* -1: never cancelled; 0: cancelled outside process_job;
                    \* m: cancelled while process_job ran for message m
    \* --- observations
    deliveryLog,    \* the deliveries of XREADGROUP, in order: [id, consumer]
    ackCalled,      \* ids for which queue.acknowledge was called
    \* --- ContainerSandbox.run
    sbPc,           \* the step run is at
    sbIn,           \* the arguments of the call
    container,      \* the local `container` is not None
    codeDir,        \* the local `code_dir` is not None
    dataDir,        \* the local `data_dir` is not None
    dirsOnDisk,     \* temp directories that exist on disk
    backend,        \* the Docker backend's view of this call's container
    sbExc,          \* exception in flight in run
    sbCancelled,    \* the task running run has been cancelled
    timedOut,       \* the local `timed_out`
    exitCode,       \* the local `exit_code` ("none": not assigned yet)
    waitStatus,     \* how container.wait ended: [kind, code, timeout] with
                    \* kind "exited" (code: the StatusCode), "timeout",
                    \* "transport" or "none" (not yet), and the timeout
                    \* argument of the call
    killCalled,     \* container.kill was called
    \* --- process_job, steps 4-7 (parse, compare, classify, build)
    clPc,           \* the step the classification is at
    clIn,           \* the sandbox result and the job it is called with
    clOut,          \* runner output, comparisons, level and verdict
    \* ---- ResultSigner (signing/ed25519.py)
    sgPc,           \* "idle", "signed", "attached", "changed", "verified"
    sgIn,           \* the signer's key and the result handed to sign
    sgRes,          \* the result object as it is now
    sgSig,          \* the string sign returned
    sgChanged,      \* what happened to the result after it was signed
    sgOk,           \* what verify returned
    \* ---- SecurityPolicy (sandbox/security.py)
    polPc,          \* "idle", "built", "rejected"
    polArgs,        \* the keyword arguments of the constructor call
    policy,         \* the fields of the constructed object
    polCfg,         \* the last dictionary to_container_config returned
    \* ---- BaseRunner.parse_output (runners/*.py)
    poPc,           \* "idle", "parsed"
    poIn,           \* the runner and the sandbox output it is given
    poOut,          \* the RunnerOutput it returned
    \* ---- ExactComparator.compare (comparators/exact.py)
    exPc,           \* "idle", "compared"
    exIn,           \* expected and actual payloads
    exOut,          \* the ComparisonResult
    \* ---- ImageComparator.compare (comparators/image.py)
    imPc,           \* "idle", "compared"
    imIn,           \* expected and actual payloads and the threshold
    imOut,          \* the ComparisonResult
    \* ---- environment variables of a job (runners, worker.py, container.py)
    evPc,           \* "idle", "prepared", "run", "created"
    evIn,           \* the caller of sandbox.run and its env_vars argument
    evOut,          \* the environment handed to containers.create
    \* ---- NumericalComparator.compare (comparators/numerical.py)
    nuPc,           \* "idle", "expected", "compared"
    nuIn,           \* the caller, both payloads and the keyword arguments
    nuOut,          \* the ComparisonResult
    \* ---- _extract_tar and the /output/ names (sandbox/container.py)
    taPc,           \* "idle", "extracted"
    taIn,           \* the members of the archive get_archive returned
    taOut,          \* the keys of SandboxResult.output_files
    \* ---- the consumer group of the stream (queue/redis_queue.py dequeue)
    grLen,          \* number of entries XADD has appended to the stream
    grGroup,        \* the group: exists, last_delivered, created_at
    grLog           \* the (id, consumer) pairs dequeue returned, in order

queueVars == <<stream, groupExists, lastDelivered, pel, jobData, jobsIndex,
               status, result>>
workerVars == <<pc, cur, sres, exc, cancelledAt>>
obsVars == <<deliveryLog, ackCalled>>
subVars == <<subPc, enqCalls>>
sandboxVars == <<sbPc, sbIn, container, codeDir, dataDir, dirsOnDisk, backend,
                 sbExc, sbCancelled, timedOut, exitCode, waitStatus,
                 killCalled>>
\* State of the units that are verified on their own.
classifyVars == <<clPc, clIn, clOut>>
signVars == <<sgPc, sgIn, sgRes, sgSig, sgChanged, sgOk>>
policyVars == <<polPc, polArgs, policy, polCfg>>
parseVars == <<poPc, poIn, poOut>>
exactVars == <<exPc, exIn, exOut>>
imageVars == <<imPc, imIn, imOut>>
envVars == <<evPc, evIn, evOut>>
numVars == <<nuPc, nuIn, nuOut>>
tarVars == <<taPc, taIn, taOut>>
groupVars == <<grLen, grGroup, grLog>>
unitVars == <<classifyVars, signVars, policyVars, parseVars, exactVars,
              imageVars, envVars, numVars, tarVars, groupVars>>
\* Everything but the variables of one unit.
pipelineVars == <<queueVars, subVars, workerVars, obsVars, sandboxVars>>
vars == <<queueVars, subVars, workerVars, obsVars, sandboxVars, unitVars>>

\* SHA-256 digests that submitted jobs carry as code_hash.
CodeHashes == {"sha_a", "sha_b"}

\* The stream of a deployment upgraded from a release with another job
\* schema still holds an entry that model_validate_json rejects.
LegacyEntry == [job |-> LegacyJob, ok |-> FALSE]

JobOf(m) == stream[m].job

\* An absent verify:jobs:result:{id} key.
NoResult == [id |-> 0]

SandboxInit ==
    /\ sbPc = "idle"
    /\ sbIn = [image |-> "none", code |-> "none", data |-> "none",
               policy |-> [timeout_seconds |-> 0]]
    /\ container = FALSE
    /\ codeDir = FALSE
    /\ dataDir = FALSE
    /\ dirsOnDisk = {}
    /\ backend = "none"
    /\ sbExc = "none"
    /\ sbCancelled = FALSE
    /\ timedOut = FALSE
    /\ exitCode = "none"
    /\ waitStatus = [kind |-> "none", code |-> 0, timeout |-> 0]
    /\ killCalled = FALSE

\* Nothing has been handed to steps 4-7 of process_job yet.
ClassifyInit ==
    /\ clPc = "idle"
    /\ clIn = [timed_out |-> FALSE, exit_code |-> 0,
               runner_type |-> "none", expected_outputs |-> <<>>,
               code_hash |-> "none"]
    /\ clOut = [success |-> FALSE, verification_level |-> "none",
                output_comparisons |-> <<>>, scores |-> <<>>,
                compare_calls |-> <<>>, level |-> "none",
                passed |-> FALSE, code_hash |-> "none"]

\* The value of a variable that holds no object yet.
None == <<>>

\* No result has been handed to the signer.
SignInit ==
    /\ sgPc = "idle"
    /\ sgIn = None
    /\ sgRes = None
    /\ sgSig = <<>>
    /\ sgChanged = "none"
    /\ sgOk = FALSE

\* No SecurityPolicy has been constructed.
PolicyInit ==
    /\ polPc = "idle"
    /\ polArgs = None
    /\ policy = None
    /\ polCfg = None

\* parse_output has not been called.
ParseInit ==
    /\ poPc = "idle"
    /\ poIn = None
    /\ poOut = None

\* No comparator has been called.
ExactInit ==
    /\ exPc = "idle"
    /\ exIn = [expected |-> <<>>, actual |-> <<>>]
    /\ exOut = None

ImageInit ==
    /\ imPc = "idle"
    /\ imIn = [expected |-> <<>>, actual |-> <<>>,
               threshold |-> [num |-> 19, den |-> 20]]
    /\ imOut = None

EnvInit ==
    /\ evPc = "idle"
    /\ evIn = None
    /\ evOut = None

NumInit ==
    /\ nuPc = "idle"
    /\ nuIn = None
    /\ nuOut = None

TarInit ==
    /\ taPc = "idle"
    /\ taIn = None
    /\ taOut = None

\* An empty stream without a consumer group.
GroupInit ==
    /\ grLen = 0
    /\ grGroup = [exists |-> FALSE, last_delivered |-> 0, created_at |-> 0]
    /\ grLog = <<>>

Init ==
    /\ stream \in {<<>>, <<LegacyEntry>>}
    /\ groupExists = FALSE
    /\ lastDelivered = 0
    /\ pel = {}
    /\ jobData = [j \in JobIds |-> 0]
    /\ jobsIndex = {}
    /\ status = [j \in JobIds |->
                    IF j = LegacyJob /\ stream # <<>> THEN "QUEUED" ELSE "NONE"]
    /\ result = [j \in JobIds |-> NoResult]
    /\ subPc = [j \in Jobs |-> "data"]
    /\ enqCalls = [j \in Jobs |-> 1]
    /\ pc = [w \in Workers |-> "dequeue"]
    /\ cur = [w \in Workers |-> 0]
    /\ sres = [w \in Workers |-> "none"]
    /\ exc = [w \in Workers |-> "none"]
    /\ cancelledAt = [w \in Workers |-> -1]
    /\ deliveryLog = <<>>
    /\ ackCalled = {}
    /\ SandboxInit
    /\ ClassifyInit
    /\ SignInit
    /\ PolicyInit
    /\ ParseInit
    /\ ExactInit
    /\ ImageInit
    /\ EnvInit
    /\ NumInit
    /\ TarInit
    /\ GroupInit

\* ---------------------------------------------------------------- JobQueue

\* set_status: one SET of the status key, whatever the previous value.
set_status(st, j, value) == [st EXCEPT ![j] = value]

\* enqueue, first await: SET verify:jobs:data:{id}.
EnqSetData(j) ==
    /\ subPc[j] = "data"
    /\ jobData' = [jobData EXCEPT ![j] = enqCalls[j]]
    /\ subPc' = [subPc EXCEPT ![j] = "index"]
    /\ UNCHANGED <<stream, groupExists, lastDelivered, pel, jobsIndex, status,
                   result, enqCalls, workerVars, obsVars, sandboxVars, unitVars>>

\* enqueue, second await: ZADD verify:jobs:index.
EnqZAdd(j) ==
    /\ subPc[j] = "index"
    /\ jobsIndex' = jobsIndex \cup {j}
    /\ subPc' = [subPc EXCEPT ![j] = "xadd"]
    /\ UNCHANGED <<stream, groupExists, lastDelivered, pel, jobData, status,
                   result, enqCalls, workerVars, obsVars, sandboxVars, unitVars>>

\* enqueue, third await: XADD to the stream.
EnqXAdd(j) ==
    /\ subPc[j] = "xadd"
    /\ stream' = Append(stream, [job |-> j, ok |-> TRUE])
    /\ subPc' = [subPc EXCEPT ![j] = "status"]
    /\ UNCHANGED <<groupExists, lastDelivered, pel, jobData, jobsIndex, status,
                   result, enqCalls, workerVars, obsVars, sandboxVars, unitVars>>

\* enqueue, fourth await: set_status(job_id, QUEUED).
EnqSetStatus(j) ==
    /\ subPc[j] = "status"
    /\ status' = set_status(status, j, "QUEUED")
    /\ subPc' = [subPc EXCEPT ![j] = "done"]
    /\ UNCHANGED <<stream, groupExists, lastDelivered, pel, jobData, jobsIndex,
                   result, enqCalls, workerVars, obsVars, sandboxVars, unitVars>>

\* Any of the four awaits of enqueue raises (the backend is unreachable):
\* enqueue propagates the error and what was written stays written.
EnqFail(j) ==
    /\ subPc[j] \in {"data", "index", "xadd", "status"}
    /\ subPc' = [subPc EXCEPT ![j] = "failed"]
    /\ UNCHANGED <<queueVars, enqCalls, workerVars, obsVars, sandboxVars, unitVars>>

\* A read that ignores the group's last-delivered id (XREAD-like): every
\* consumer is offered every entry of the stream.
ReadFromStart(strm, last) == 1..Len(strm)

\* A read that hands out the newest undelivered entry first and moves the
\* group's last-delivered id to it (the entries before it are skipped).
ReadNewest(strm, last) == IF last < Len(strm) THEN {Len(strm)} ELSE {}

\* XREADGROUP with id ">" and count=1: the entries never delivered to any
\* consumer of the group, oldest first, at most one.
NewEntries(strm, last) == IF last < Len(strm) THEN {last + 1} ELSE {}

\* dequeue: XGROUP CREATE ... id="0" mkstream (BUSYGROUP is swallowed),
\* XREADGROUP, the deserialisation loop; and run_worker's
\* `if not messages: continue`.  An error of either Redis call other than
\* BUSYGROUP propagates to the outer handler of the worker loop.
Dequeue(w) ==
    /\ pc[w] = "dequeue"
    /\ \/ /\ groupExists' = TRUE
          /\ LET last == IF groupExists THEN lastDelivered ELSE 0 IN
             \/ \E m \in NewEntries(stream, last) :
                  /\ lastDelivered' = m
                  /\ pel' = pel \cup {m}
                  /\ deliveryLog' = Append(deliveryLog,
                                            [id |-> m, consumer |-> w])
                  /\ IF stream[m].ok
                       THEN /\ cur' = [cur EXCEPT ![w] = m]
                            /\ pc' = [pc EXCEPT ![w] = "running"]
                       ELSE \* logged; results stays empty
                            /\ UNCHANGED <<cur, pc>>
             \/ /\ NewEntries(stream, last) = {}   \* block_ms elapsed
                /\ lastDelivered' = last
                /\ UNCHANGED <<pel, deliveryLog, cur, pc>>
       \/ /\ pc' = [pc EXCEPT ![w] = "sleep"]
          /\ UNCHANGED <<groupExists, lastDelivered, pel, deliveryLog, cur>>
    /\ UNCHANGED <<stream, jobData, jobsIndex, status, result, subVars, sres,
                   exc, cancelledAt, ackCalled, sandboxVars, unitVars>>

\* acknowledge: XACK removes the entry from the group's pending entries.
xack(p, m) == p \ {m}

\* ------------------------------------------------------------------ worker

\* run_worker with an outer `except Exception: break`: an error that leaves
\* the for-loop body ends the loop like a cancellation does.
AfterFinallyErrorEnds(e) ==
    CASE e = "none" -> "dequeue"
      [] OTHER -> "done"

\* Where the for-loop body of run_worker goes once its finally clause has
\* run with exception e in flight: on to the next loop iteration, to the
\* outer `except CancelledError: break`, or to the outer `except Exception`.
AfterFinally(e) ==
    CASE e = "none" -> "dequeue"
      [] e = "cancel" -> "done"
      [] OTHER -> "sleep"

\* process_job, first await: set_status(job.id, RUNNING).
SetRunning(w) ==
    /\ pc[w] = "running"
    /\ \/ /\ status' = set_status(status, JobOf(cur[w]), "RUNNING")
          /\ pc' = [pc EXCEPT ![w] = "sandbox"]
       \/ /\ pc' = [pc EXCEPT ![w] = "failed"]
          /\ UNCHANGED status
    /\ UNCHANGED <<stream, groupExists, lastDelivered, pel, jobData, jobsIndex,
                   result, subVars, cur, sres, exc, cancelledAt, obsVars,
                   sandboxVars, unitVars>>

\* process_job from get_runner to signer.sign: prepare, SecurityPolicy, the
\* await of sandbox.run, parse_output, the comparisons, the classification
\* and the signature.  Any of them may raise; otherwise the sandbox result
\* either reports a timeout or an exit code.
RunSandbox(w) ==
    /\ pc[w] = "sandbox"
    /\ \/ \E r \in {"exit", "timeout"} :
            /\ sres' = [sres EXCEPT ![w] = r]
            /\ pc' = [pc EXCEPT ![w] = "store_result"]
       \/ /\ pc' = [pc EXCEPT ![w] = "failed"]
          /\ UNCHANGED sres
    /\ UNCHANGED <<queueVars, subVars, cur, exc, cancelledAt, obsVars,
                   sandboxVars, unitVars>>

\* VerificationResult(...): `id` is a fresh uuid4 at every construction.
\* process_job constructs one result per for-loop body, and every stream
\* entry gets one for-loop body, so the entry id names the construction.
\* The other fields of the result play no part in what the queue and the
\* worker loop do with it.
VerificationResult(m) == [id |-> m]

\* A store_result that marks the job COMPLETED before it writes the result.
StoreResultStatusFirst(w) ==
    /\ pc[w] = "store_result"
    /\ status' = set_status(status, JobOf(cur[w]), "COMPLETED")
    /\ pc' = [pc EXCEPT ![w] = "store_status"]
    /\ UNCHANGED <<stream, groupExists, lastDelivered, pel, jobData, jobsIndex,
                   result, subVars, cur, sres, exc, cancelledAt, obsVars,
                   sandboxVars, unitVars>>

\* store_result, first await: SET verify:jobs:result:{id}.
StoreResult(w) ==
    /\ pc[w] = "store_result"
    /\ \/ /\ result' = [result EXCEPT ![JobOf(cur[w])] =
                                      VerificationResult(cur[w])]
          /\ pc' = [pc EXCEPT ![w] = "store_status"]
       \/ /\ pc' = [pc EXCEPT ![w] = "failed"]
          /\ UNCHANGED result
    /\ UNCHANGED <<stream, groupExists, lastDelivered, pel, jobData, jobsIndex,
                   status, subVars, cur, sres, exc, cancelledAt, obsVars,
                   sandboxVars, unitVars>>

\* store_result, second await: set_status(job_id, COMPLETED); process_job
\* then returns and the finally clause of run_worker runs.
StoreStatus(w) ==
    /\ pc[w] = "store_status"
    /\ \/ /\ status' = set_status(status, JobOf(cur[w]), "COMPLETED")
          /\ pc' = [pc EXCEPT ![w] = "ack"]
       \/ /\ pc' = [pc EXCEPT ![w] = "failed"]
          /\ UNCHANGED status
    /\ UNCHANGED <<stream, groupExists, lastDelivered, pel, jobData, jobsIndex,
                   result, subVars, cur, sres, exc, cancelledAt, obsVars,
                   sandboxVars, unitVars>>

\* The handler with queue.acknowledge placed after the try statement instead
\* of in a finally clause: an error of the FAILED write skips it.
HandleFailureNoFinally(w) ==
    /\ pc[w] = "failed"
    /\ \/ /\ status' = set_status(status, JobOf(cur[w]), "FAILED")
          /\ pc' = [pc EXCEPT ![w] = "ack"]
          /\ UNCHANGED <<exc, cur, sres>>
       \/ /\ pc' = [pc EXCEPT ![w] = "sleep"]
          /\ cur' = [cur EXCEPT ![w] = 0]
          /\ sres' = [sres EXCEPT ![w] = "none"]
          /\ UNCHANGED <<exc, status>>
    /\ UNCHANGED <<stream, groupExists, lastDelivered, pel, jobData, jobsIndex,
                   result, subVars, cancelledAt, obsVars, sandboxVars, unitVars>>

\* run_worker's `except Exception`: set_status(job.id, FAILED).  When that
\* write raises, its exception leaves the handler; the finally clause runs
\* either way.
HandleFailure(w) ==
    /\ pc[w] = "failed"
    /\ \/ /\ status' = set_status(status, JobOf(cur[w]), "FAILED")
          /\ UNCHANGED exc
       \/ /\ exc' = [exc EXCEPT ![w] = "error"]
          /\ UNCHANGED status
    /\ pc' = [pc EXCEPT ![w] = "ack"]
    /\ UNCHANGED <<stream, groupExists, lastDelivered, pel, jobData, jobsIndex,
                   result, subVars, cur, sres, cancelledAt, obsVars,
                   sandboxVars, unitVars>>

\* run_worker's `finally`: queue.acknowledge(msg_id, group).  An error of
\* the XACK replaces whatever exception was in flight.
Acknowledge(w) ==
    /\ pc[w] = "ack"
    /\ ackCalled' = ackCalled \cup {cur[w]}
    /\ \/ /\ pel' = xack(pel, cur[w])
          /\ pc' = [pc EXCEPT ![w] = AfterFinally(exc[w])]
       \/ /\ pc' = [pc EXCEPT ![w] = AfterFinally("error")]
          /\ UNCHANGED pel
    /\ cur' = [cur EXCEPT ![w] = 0]
    /\ sres' = [sres EXCEPT ![w] = "none"]
    /\ exc' = [exc EXCEPT ![w] = "none"]
    /\ UNCHANGED <<stream, groupExists, lastDelivered, jobData, jobsIndex,
                   status, result, subVars, cancelledAt, deliveryLog,
                   sandboxVars, unitVars>>

\* run_worker's outer `except Exception`: asyncio.sleep(1), then loop.
Sleep(w) ==
    /\ pc[w] = "sleep"
    /\ pc' = [pc EXCEPT ![w] = "dequeue"]
    /\ UNCHANGED <<queueVars, subVars, cur, sres, exc, cancelledAt, obsVars,
                   sandboxVars, unitVars>>

\* lifespan's worker_task.cancel(): CancelledError is raised at the await
\* the worker is suspended at.  It is no Exception, so `except Exception`
\* does not handle it; `finally` still runs.  Outside the for-loop body it
\* reaches `except CancelledError: break` (or, from the sleep of the outer
\* handler, leaves run_worker directly).
Cancel(w) ==
    /\ cancelledAt[w] = -1
    /\ pc[w] # "done"
    /\ \/ /\ pc[w] \in InProcessJob
          /\ cancelledAt' = [cancelledAt EXCEPT ![w] = cur[w]]
          /\ exc' = [exc EXCEPT ![w] = "cancel"]
          /\ pc' = [pc EXCEPT ![w] = "ack"]
          /\ UNCHANGED <<cur, sres, ackCalled>>
       \/ /\ pc[w] = "failed"
          /\ cancelledAt' = [cancelledAt EXCEPT ![w] = 0]
          /\ exc' = [exc EXCEPT ![w] = "cancel"]
          /\ pc' = [pc EXCEPT ![w] = "ack"]
          /\ UNCHANGED <<cur, sres, ackCalled>>
       \/ /\ pc[w] = "ack"
          /\ cancelledAt' = [cancelledAt EXCEPT ![w] = 0]
          /\ ackCalled' = ackCalled \cup {cur[w]}
          /\ exc' = [exc EXCEPT ![w] = "none"]
          /\ cur' = [cur EXCEPT ![w] = 0]
          /\ sres' = [sres EXCEPT ![w] = "none"]
          /\ pc' = [pc EXCEPT ![w] = "done"]
       \/ /\ pc[w] \in {"dequeue", "sleep"}
          /\ cancelledAt' = [cancelledAt EXCEPT ![w] = 0]
          /\ pc' = [pc EXCEPT ![w] = "done"]
          /\ UNCHANGED <<cur, sres, exc, ackCalled>>
    /\ UNCHANGED <<queueVars, subVars, deliveryLog, sandboxVars, unitVars>>

\* One step of run_worker other than its cancellation.
WorkerStep(w) ==
    \/ Dequeue(w)
    \/ SetRunning(w) \/ RunSandbox(w) \/ StoreResult(w) \/ StoreStatus(w)
    \/ HandleFailure(w) \/ Acknowledge(w) \/ Sleep(w)

Submit ==
    \E j \in Jobs :
        EnqSetData(j) \/ EnqZAdd(j) \/ EnqXAdd(j) \/ EnqSetStatus(j) \/ EnqFail(j)

Work ==
    \E w \in Workers :
        \/ Dequeue(w)
        \/ SetRunning(w) \/ RunSandbox(w) \/ StoreResult(w) \/ StoreStatus(w)
        \/ HandleFailure(w) \/ Acknowledge(w) \/ Sleep(w) \/ Cancel(w)

Next == Submit \/ Work

Spec == Init /\ [][Next]_vars

\* Most calls of enqueue a caller makes with one job id.
MaxEnqCalls == 2

\* A caller calls enqueue again with a job it has passed to enqueue before
\* (a retry after an error of enqueue, or a repeated submission): enqueue
\* starts over at its first await.
EnqueueAgain(j) ==
    /\ subPc[j] \in {"done", "failed"}
    /\ enqCalls[j] < MaxEnqCalls
    /\ enqCalls' = [enqCalls EXCEPT ![j] = @ + 1]
    /\ subPc' = [subPc EXCEPT ![j] = "data"]
    /\ UNCHANGED <<queueVars, workerVars, obsVars, sandboxVars, unitVars>>

Resubmit == \E j \in Jobs : EnqueueAgain(j)

RequeueNext == Submit \/ Resubmit \/ Work

\* The queue and the workers with callers that may enqueue a job twice.
RequeueSpec == Init /\ [][RequeueNext]_vars

\* The event loop keeps running a worker task that has not ended: every
\* await of run_worker eventually completes.
FairSpec == Spec /\ \A w \in Workers : WF_vars(WorkerStep(w))

\* The step of worker w met no error of the queue backend: dequeue,
\* set_status, store_result and acknowledge all returned normally.
NoBackendError(w) ==
    /\ pc'[w] # "sleep"
    /\ pc[w] \in {"running", "store_result", "store_status"} =>
           pc'[w] # "failed"
    /\ pc[w] = "failed" => exc'[w] = exc[w]

\* One step of run_worker while the queue backend is reachable.
ReliableStep(w) ==
    \/ Dequeue(w) /\ NoBackendError(w)
    \/ SetRunning(w) /\ NoBackendError(w)
    \/ RunSandbox(w)
    \/ StoreResult(w) /\ NoBackendError(w)
    \/ StoreStatus(w) /\ NoBackendError(w)
    \/ HandleFailure(w) /\ NoBackendError(w)
    \/ Acknowledge(w) /\ NoBackendError(w)

\* enqueue while the queue backend is reachable.
ReliableSubmit ==
    \E j \in Jobs :
        EnqSetData(j) \/ EnqZAdd(j) \/ EnqXAdd(j) \/ EnqSetStatus(j)

ReliableNext == ReliableSubmit \/ \E w \in Workers : ReliableStep(w)

\* The queue and the workers when the backend stays reachable, no worker is
\* cancelled and the event loop keeps running every worker.
ReliableSpec ==
    Init /\ [][ReliableNext]_vars
         /\ \A w \in Workers : WF_vars(ReliableStep(w))

\* -------------------------------------------------- ContainerSandbox.run

\* Kinds of keys of code_files / data_files: a relative path, an absolute
\* path, a path with a ".." component, a relative path whose file name
\* contains two dots.
PathKinds == {"rel", "abs", "dotdot", "dots"}

\* relative_path.split("/") for a key of each kind: "src/run.py",
\* "/etc/passwd", "src/../../x", "v1..2.py".
Split(k) ==
    CASE k = "rel" -> <<"src", "run.py">>
      [] k = "abs" -> <<"", "etc", "passwd">>
      [] k = "dotdot" -> <<"src", "..", "..", "x">>
      [] k = "dots" -> <<"v1..2.py">>

\* relative_path.startswith("/"), on the split key.
StartsWithSlash(parts) == Len(parts) >= 2 /\ parts[1] = ""

\* The check of a key that tests the leading slash only.
PathRejectedAbsOnly(k) == StartsWithSlash(Split(k))

\* The check of each key: relative_path.startswith("/") or ".." in
\* relative_path.split("/").
PathRejected(k) ==
    \/ StartsWithSlash(Split(k))
    \/ \E i \in 1..Len(Split(k)) : Split(k)[i] = ".."

\* The file mappings run is called with, in iteration order.
FileMaps == {<<>>, <<"rel">>, <<"rel", "abs">>, <<"dotdot">>, <<"dots", "rel">>}

\* The write loop over a mapping: TRUE when it raises ValueError at some key
\* (the keys before it have been written by then).
LoopRejects(keys) == \E i \in 1..Len(keys) : PathRejected(keys[i])

\* Number of files the write loop has written when it ends or raises.
RECURSIVE FilesWritten(_)
FilesWritten(keys) ==
    IF keys = <<>> \/ PathRejected(Head(keys)) THEN 0
    ELSE 1 + FilesWritten(Tail(keys))

\* The awaits of run inside its try block (each an asyncio.to_thread call).
SbTryAwaits == {"create", "start", "wait", "kill", "logs_out", "logs_err",
                "get_archive"}

\* How run ends with exception e in flight.
SbExit(e) ==
    CASE e = "none" -> "returned"
      [] e = "cancel" -> "cancelled"
      [] OTHER -> "raised"

\* code_dir.cleanup() / data_dir.cleanup() for the directories whose local
\* is not None.
Cleanup(dirs, cd, dd) ==
    dirs \ ((IF cd THEN {"code"} ELSE {}) \cup (IF dd THEN {"data"} ELSE {}))

\* _ALLOWED_IMAGES.
ALLOWED_IMAGES == {"phiacta-verify-runner-python:latest",
                   "phiacta-verify-runner-r:latest",
                   "phiacta-verify-runner-julia:latest",
                   "phiacta-verify-runner-lean4:latest",
                   "phiacta-verify-runner-symbolic:latest"}

\* The images run is called with: two of the allow-list, another tag of an
\* allowed repository, an allowed name without its tag, a foreign image.
Images == {"phiacta-verify-runner-python:latest",
           "phiacta-verify-runner-lean4:latest",
           "phiacta-verify-runner-python:3.11",
           "phiacta-verify-runner-python",
           "ubuntu:latest"}

\* The `policy` argument of run: None, or a SecurityPolicy with its own
\* timeout_seconds.
SbPolicies ==
    {[given |-> FALSE, timeout_seconds |-> 0],
     [given |-> TRUE, timeout_seconds |-> 30],
     [given |-> TRUE, timeout_seconds |-> 300]}

\* `if policy is None: policy = SecurityPolicy()`; timeout_seconds
\* defaults to 120.
EffectivePolicy(pol) ==
    IF pol.given THEN [timeout_seconds |-> pol.timeout_seconds]
    ELSE [timeout_seconds |-> 120]

\* The wait-failure path without the kill: the logs are read from a
\* container that may still be running.
SbKillSkipped ==
    /\ sbPc = "kill"
    /\ sbPc' = "logs_out"
    /\ UNCHANGED <<queueVars, subVars, workerVars, obsVars, unitVars,
                   exitCode, waitStatus, killCalled, sbIn, container,
                   codeDir, dataDir, dirsOnDisk, backend, sbExc, sbCancelled,
                   timedOut>>

\* The call of run with the allow-list check left out.
SbCallNoAllowList(img, code, data) ==
    /\ sbPc = "idle"
    /\ \E pol \in SbPolicies :
          sbIn' = [image |-> img, code |-> code, data |-> data,
                   policy |-> EffectivePolicy(pol)]
    /\ sbPc' = "write_code"
    /\ UNCHANGED <<queueVars, subVars, workerVars, obsVars, unitVars,
                   exitCode, waitStatus, killCalled, container, codeDir,
                   dataDir, dirsOnDisk, backend, sbExc, sbCancelled, timedOut>>

\* The call of run up to `try`: the allow-list check.
SbCall(img, code, data) ==
    /\ sbPc = "idle"
    /\ \E pol \in SbPolicies :
          sbIn' = [image |-> img, code |-> code, data |-> data,
                   policy |-> EffectivePolicy(pol)]
    /\ IF img \in ALLOWED_IMAGES
         THEN /\ sbPc' = "write_code"
              /\ UNCHANGED sbExc
         ELSE /\ sbPc' = "raised"
              /\ sbExc' = "error"
    /\ UNCHANGED <<queueVars, subVars, workerVars, obsVars, unitVars,
                   exitCode, waitStatus, killCalled, container, codeDir,
                   dataDir, dirsOnDisk, backend, sbCancelled, timedOut>>

\* Step 1: the code temp directory and the write loop over code_files.
SbWriteCode ==
    /\ sbPc = "write_code"
    /\ codeDir' = TRUE
    /\ dirsOnDisk' = dirsOnDisk \cup {"code"}
    /\ IF LoopRejects(sbIn.code)
         THEN /\ sbExc' = "error"
              /\ sbPc' = "finally"
         ELSE /\ sbPc' = "write_data"
              /\ UNCHANGED sbExc
    /\ UNCHANGED <<queueVars, subVars, workerVars, obsVars, unitVars,
                   exitCode, waitStatus, killCalled, sbIn, container,
                   dataDir, backend, sbCancelled, timedOut>>

\* Steps 2-4: the data temp directory (only `if data_files`), its write
\* loop, the container configuration and the environment filter.
SbWriteData ==
    /\ sbPc = "write_data"
    /\ IF sbIn.data # <<>>
         THEN /\ dataDir' = TRUE
              /\ dirsOnDisk' = dirsOnDisk \cup {"data"}
              /\ IF LoopRejects(sbIn.data)
                   THEN /\ sbExc' = "error"
                        /\ sbPc' = "finally"
                   ELSE /\ sbPc' = "create"
                        /\ UNCHANGED sbExc
         ELSE /\ sbPc' = "create"
              /\ UNCHANGED <<dataDir, dirsOnDisk, sbExc>>
    /\ UNCHANGED <<queueVars, subVars, workerVars, obsVars, unitVars,
                   exitCode, waitStatus, killCalled, sbIn, container,
                   codeDir, backend, sbCancelled, timedOut>>

\* Step 5: container = await to_thread(containers.create, ...).
SbCreate ==
    /\ sbPc = "create"
    /\ \/ /\ backend' = "created"
          /\ container' = TRUE
          /\ sbPc' = "start"
          /\ UNCHANGED sbExc
       \/ /\ sbExc' = "error"      \* ImageNotFound, APIError, transport
          /\ sbPc' = "finally"
          /\ UNCHANGED <<backend, container>>
    /\ UNCHANGED <<queueVars, subVars, workerVars, obsVars, unitVars,
                   exitCode, waitStatus, killCalled, sbIn, codeDir,
                   dataDir, dirsOnDisk, sbCancelled, timedOut>>

\* await to_thread(container.start).
SbStart ==
    /\ sbPc = "start"
    /\ \/ /\ backend' = "started"
          /\ sbPc' = "wait"
          /\ UNCHANGED sbExc
       \/ /\ sbExc' = "error"
          /\ sbPc' = "finally"
          /\ UNCHANGED backend
    /\ UNCHANGED <<queueVars, subVars, workerVars, obsVars, unitVars,
                   exitCode, waitStatus, killCalled, sbIn, container,
                   codeDir, dataDir, dirsOnDisk, sbCancelled, timedOut>>

\* The StatusCode values container.wait returns: success, failure, killed.
StatusCodes == {0, 1, 137}

\* How container.wait fails: the timeout elapsed (ReadTimeout), the
\* connection to the daemon broke (ConnectionError), the daemon answered
\* with an error (APIError).
WaitFailures == {"timeout", "transport", "api_error"}

\* The wait whose except clause sets exit_code but leaves timed_out False.
SbWaitNoFlag ==
    /\ sbPc = "wait"
    /\ \/ \E c \in StatusCodes :
            /\ waitStatus' = [kind |-> "exited", code |-> c,
                              timeout |-> sbIn.policy.timeout_seconds]
            /\ exitCode' = c
            /\ timedOut' = FALSE
            /\ sbPc' = "logs_out"
       \/ \E k \in WaitFailures :
            /\ waitStatus' = [kind |-> k, code |-> 0,
                              timeout |-> sbIn.policy.timeout_seconds]
            /\ exitCode' = -1
            /\ timedOut' = FALSE
            /\ sbPc' = "kill"
    /\ UNCHANGED <<queueVars, subVars, workerVars, obsVars, unitVars,
                   killCalled, sbIn, container,
                   codeDir, dataDir, dirsOnDisk, backend, sbExc, sbCancelled>>

\* timed_out = False; await to_thread(container.wait,
\* timeout=policy.timeout_seconds): the exit status becomes exit_code; on
\* APIError / ConnectionError / ReadTimeout, timed_out = True and
\* exit_code = -1, and the kill follows.
SbWait ==
    /\ sbPc = "wait"
    /\ \/ \E c \in StatusCodes :
            /\ waitStatus' = [kind |-> "exited", code |-> c,
                              timeout |-> sbIn.policy.timeout_seconds]
            /\ exitCode' = c
            /\ timedOut' = FALSE
            /\ sbPc' = "logs_out"
       \/ \E k \in WaitFailures :
            /\ waitStatus' = [kind |-> k, code |-> 0,
                              timeout |-> sbIn.policy.timeout_seconds]
            /\ exitCode' = -1
            /\ timedOut' = TRUE
            /\ sbPc' = "kill"
    /\ UNCHANGED <<queueVars, subVars, workerVars, obsVars, unitVars,
                   killCalled, sbIn, container,
                   codeDir, dataDir, dirsOnDisk, backend, sbExc, sbCancelled>>

\* await to_thread(container.kill): APIError is ignored, any other error
\* propagates.
SbKill ==
    /\ sbPc = "kill"
    /\ killCalled' = TRUE
    /\ \/ /\ sbPc' = "logs_out"
          /\ UNCHANGED sbExc
       \/ /\ sbExc' = "error"
          /\ sbPc' = "finally"
    /\ UNCHANGED <<queueVars, subVars, workerVars, obsVars, unitVars,
                   exitCode, waitStatus, sbIn, container,
                   codeDir, dataDir, dirsOnDisk, backend, sbCancelled,
                   timedOut>>

\* await to_thread(container.logs, stdout=True, stderr=False).
SbLogsOut ==
    /\ sbPc = "logs_out"
    /\ \/ /\ sbPc' = "logs_err"
          /\ UNCHANGED sbExc
       \/ /\ sbExc' = "error"
          /\ sbPc' = "finally"
    /\ UNCHANGED <<queueVars, subVars, workerVars, obsVars, unitVars,
                   exitCode, waitStatus, killCalled, sbIn, container,
                   codeDir, dataDir, dirsOnDisk, backend, sbCancelled,
                   timedOut>>

\* await to_thread(container.logs, stdout=False, stderr=True), truncation
\* and sanitising.
SbLogsErr ==
    /\ sbPc = "logs_err"
    /\ \/ /\ sbPc' = "get_archive"
          /\ UNCHANGED sbExc
       \/ /\ sbExc' = "error"
          /\ sbPc' = "finally"
    /\ UNCHANGED <<queueVars, subVars, workerVars, obsVars, unitVars,
                   exitCode, waitStatus, killCalled, sbIn, container,
                   codeDir, dataDir, dirsOnDisk, backend, sbCancelled,
                   timedOut>>

\* await to_thread(container.get_archive, "/output/") and the extraction:
\* NotFound and APIError are swallowed; a transport error or an unreadable
\* archive propagates.  Then `return SandboxResult(...)`.
SbGetArchive ==
    /\ sbPc = "get_archive"
    /\ sbPc' = "finally"
    /\ \/ UNCHANGED sbExc
       \/ sbExc' = "error"
    /\ UNCHANGED <<queueVars, subVars, workerVars, obsVars, unitVars,
                   exitCode, waitStatus, killCalled, sbIn, container,
                   codeDir, dataDir, dirsOnDisk, backend, sbCancelled,
                   timedOut>>

\* The finally clause: `if container is not None` await
\* to_thread(container.remove, force=True), with APIError logged and
\* swallowed; then the cleanup of the temp directories.  An error of the
\* removal that is no APIError leaves the clause before the cleanup.
SbFinally ==
    /\ sbPc = "finally"
    /\ \/ /\ ~container
          /\ dirsOnDisk' = Cleanup(dirsOnDisk, codeDir, dataDir)
          /\ sbPc' = SbExit(sbExc)
          /\ UNCHANGED <<backend, sbExc>>
       \/ /\ container
          /\ backend' = "removed"
          /\ dirsOnDisk' = Cleanup(dirsOnDisk, codeDir, dataDir)
          /\ sbPc' = SbExit(sbExc)
          /\ UNCHANGED sbExc
       \/ /\ container                       \* docker.errors.APIError
          /\ dirsOnDisk' = Cleanup(dirsOnDisk, codeDir, dataDir)
          /\ sbPc' = SbExit(sbExc)
          /\ UNCHANGED <<backend, sbExc>>
       \/ /\ container                       \* transport error
          /\ sbExc' = "error"
          /\ sbPc' = SbExit("error")
          /\ UNCHANGED <<backend, dirsOnDisk>>
    /\ UNCHANGED <<queueVars, subVars, workerVars, obsVars, unitVars,
                   exitCode, waitStatus, killCalled, sbIn, container,
                   codeDir, dataDir, sbCancelled, timedOut>>

\* The task running run is cancelled while suspended at an await.  The
\* coroutine gets CancelledError and the assignment of the awaited value
\* does not happen; the thread that to_thread started is not interrupted, so
\* the backend call itself may or may not have taken effect.
SbCancel ==
    /\ ~sbCancelled
    /\ sbCancelled' = TRUE
    /\ sbExc' = "cancel"
    /\ \/ /\ sbPc = "create"
          /\ backend' \in {"none", "created"}
          /\ sbPc' = "finally"
          /\ UNCHANGED dirsOnDisk
       \/ /\ sbPc = "start"
          /\ backend' \in {"created", "started"}
          /\ sbPc' = "finally"
          /\ UNCHANGED dirsOnDisk
       \/ /\ sbPc \in SbTryAwaits \ {"create", "start"}
          /\ sbPc' = "finally"
          /\ UNCHANGED <<backend, dirsOnDisk>>
       \/ /\ sbPc = "finally"
          /\ container
          /\ backend' \in {backend, "removed"}
          /\ sbPc' = SbExit("cancel")
          /\ UNCHANGED dirsOnDisk
    /\ UNCHANGED <<queueVars, subVars, workerVars, obsVars, unitVars,
                   exitCode, waitStatus, killCalled, sbIn, container,
                   codeDir, dataDir, timedOut>>

SandboxNext ==
    \/ \E img \in Images, code \in FileMaps, data \in FileMaps :
           SbCall(img, code, data)
    \/ SbWriteCode \/ SbWriteData \/ SbCreate \/ SbStart \/ SbWait \/ SbKill
    \/ SbLogsOut \/ SbLogsErr \/ SbGetArchive \/ SbFinally \/ SbCancel

SandboxSpec == Init /\ [][SandboxNext]_vars

\* ------------------------------------------- process_job, steps 4 to 7

\* Longest list of expected outputs of a job.
MaxExpected == 2

\* RunnerType.
RunnerTypes == {"PYTHON_SCRIPT", "PYTHON_NOTEBOOK", "R_SCRIPT", "R_MARKDOWN",
                "JULIA", "LEAN4", "SYMPY", "SAGE"}

\* _RUNNER_MAP / get_runner: the runner class of a runner type.
get_runner(t) ==
    CASE t \in {"PYTHON_SCRIPT", "PYTHON_NOTEBOOK"} -> "PythonRunner"
      [] t \in {"R_SCRIPT", "R_MARKDOWN"} -> "RRunner"
      [] t = "JULIA" -> "JuliaRunner"
      [] t = "LEAN4" -> "LeanRunner"
      [] t \in {"SYMPY", "SAGE"} -> "SymbolicRunner"

\* parse_output of the five runners: exit code 0 is success, at
\* L6_FORMALLY_PROVEN for LeanRunner and L2_EXECUTION_VERIFIED for the
\* others; any other exit code is a failure at L0_UNVERIFIED.
parse_output(runner, exit_code) ==
    IF exit_code = 0
      THEN [success |-> TRUE,
            verification_level |->
                IF runner = "LeanRunner" THEN "L6_FORMALLY_PROVEN"
                ELSE "L2_EXECUTION_VERIFIED"]
      ELSE [success |-> FALSE, verification_level |-> "L0_UNVERIFIED"]

\* Exit codes of a sandbox result: -1 (wait failed), 0, another status.
ExitCodes == {-1, 0, 1}

\* What the comparison loop meets for one expected output: the runner
\* output has no file of that name, the comparator reports a match or a
\* mismatch, or get_comparator / compare raises.
Outcomes == {"missing", "matched", "mismatched", "raises"}

\* The lists of expected outputs of a job (None and [] are both falsy).
ExpectedLists ==
    UNION {[1..n -> Outcomes] : n \in 0..MaxExpected}

\* The `matched` field of the OutputComparison appended for an outcome.
Matched(o) == o = "matched"

\* A loop that appends nothing for an expected output that was not
\* produced.
ComparisonsSkipMissing(expected, success) ==
    IF expected # <<>> /\ success
      THEN LET produced == SelectSeq(expected, LAMBDA o : o # "missing") IN
           [i \in 1..Len(produced) |-> Matched(produced[i])]
      ELSE <<>>

\* Step 5 runs its loop only `if job.expected_outputs and
\* runner_output.success`; the list of `matched` fields it builds.
Comparisons(expected, success) ==
    IF expected # <<>> /\ success
      THEN [i \in 1..Len(expected) |-> Matched(expected[i])]
      ELSE <<>>

\* The `score` field of the OutputComparison appended for an outcome: the
\* literal 0.0 for a missing output, else the score of the comparator.
Score(o) == IF o = "missing" THEN "0.0" ELSE "comp_result.score"

\* The positions of the expected outputs for which comparator.compare is
\* called, in the order of the calls.
RECURSIVE CompareCalls(_, _)
CompareCalls(expected, i) ==
    IF i > Len(expected) THEN <<>>
    ELSE (IF expected[i] = "missing" THEN <<>> ELSE <<i>>)
             \o CompareCalls(expected, i + 1)

\* all(c.matched for c in output_comparisons).
AllMatched(comps) == \A i \in 1..Len(comps) : comps[i]

\* Step 6 with the timeout test moved behind the tests of the comparisons.
ClassifyTimeoutLast(timed_out, success, exit_code, claimed, comps) ==
    IF success /\ comps # <<>> /\ AllMatched(comps)
      THEN [level |-> claimed, passed |-> TRUE]
    ELSE IF success /\ comps # <<>>
      THEN [level |-> "L2_EXECUTION_VERIFIED", passed |-> FALSE]
    ELSE IF success /\ ~timed_out
      THEN [level |-> claimed, passed |-> success]
    ELSE IF timed_out
      THEN [level |-> "L0_UNVERIFIED", passed |-> FALSE]
    ELSE [level |-> IF exit_code # 0 THEN "L1_SYNTAX_VERIFIED"
                    ELSE "L0_UNVERIFIED",
          passed |-> FALSE]

\* Step 6 without the branch for mismatching comparisons.
ClassifyIgnoreMismatch(timed_out, success, exit_code, claimed, comps) ==
    IF timed_out
      THEN [level |-> "L0_UNVERIFIED", passed |-> FALSE]
    ELSE IF ~success
      THEN [level |-> IF exit_code # 0 THEN "L1_SYNTAX_VERIFIED"
                      ELSE "L0_UNVERIFIED",
            passed |-> FALSE]
    ELSE [level |-> claimed, passed |-> success]

\* Step 6 reporting the runner's level for a failed run.
ClassifyFailureClaimed(timed_out, success, exit_code, claimed, comps) ==
    IF timed_out
      THEN [level |-> "L0_UNVERIFIED", passed |-> FALSE]
    ELSE IF ~success
      THEN [level |-> claimed, passed |-> FALSE]
    ELSE IF comps # <<>> /\ AllMatched(comps)
      THEN [level |-> claimed, passed |-> TRUE]
    ELSE IF comps # <<>>
      THEN [level |-> "L2_EXECUTION_VERIFIED", passed |-> FALSE]
    ELSE [level |-> claimed, passed |-> success]

\* Step 6: the verification level and the verdict.
Classify(timed_out, success, exit_code, claimed, comps) ==
    IF timed_out
      THEN [level |-> "L0_UNVERIFIED", passed |-> FALSE]
    ELSE IF ~success
      THEN [level |-> IF exit_code # 0 THEN "L1_SYNTAX_VERIFIED"
                      ELSE "L0_UNVERIFIED",
            passed |-> FALSE]
    ELSE IF comps # <<>> /\ AllMatched(comps)
      THEN [level |-> claimed, passed |-> TRUE]
    ELSE IF comps # <<>>
      THEN [level |-> "L2_EXECUTION_VERIFIED", passed |-> FALSE]
    ELSE [level |-> claimed, passed |-> success]

\* sandbox.run has returned its result to process_job.
ClCall(timed_out, exit_code, runner_type, expected, code_hash) ==
    /\ clPc = "idle"
    /\ clIn' = [timed_out |-> timed_out, exit_code |-> exit_code,
                runner_type |-> runner_type, expected_outputs |-> expected,
                code_hash |-> code_hash]
    /\ clPc' = "parse"
    /\ UNCHANGED <<pipelineVars, clOut, signVars, policyVars, parseVars,
                   exactVars, imageVars, envVars, numVars, tarVars, groupVars>>

\* Step 4: runner.parse_output.
ClParse ==
    /\ clPc = "parse"
    /\ LET out == parse_output(get_runner(clIn.runner_type), clIn.exit_code) IN
         clOut' = [clOut EXCEPT !.success = out.success,
                                !.verification_level = out.verification_level]
    /\ clPc' = "compare"
    /\ UNCHANGED <<pipelineVars, clIn, signVars, policyVars, parseVars,
                   exactVars, imageVars, envVars, numVars, tarVars, groupVars>>

\* Step 5: the comparison loop; an error of a comparator leaves process_job.
ClCompare ==
    /\ clPc = "compare"
    /\ IF /\ clIn.expected_outputs # <<>>
          /\ clOut.success
          /\ \E i \in 1..Len(clIn.expected_outputs) :
                 clIn.expected_outputs[i] = "raises"
         THEN /\ clPc' = "raised"
              /\ UNCHANGED clOut
         ELSE /\ clOut' =
                   [clOut EXCEPT
                      !.output_comparisons =
                          Comparisons(clIn.expected_outputs, clOut.success),
                      !.scores =
                          IF clIn.expected_outputs # <<>> /\ clOut.success
                            THEN [i \in 1..Len(clIn.expected_outputs) |->
                                     Score(clIn.expected_outputs[i])]
                            ELSE <<>>,
                      !.compare_calls =
                          IF clIn.expected_outputs # <<>> /\ clOut.success
                            THEN CompareCalls(clIn.expected_outputs, 1)
                            ELSE <<>>]
              /\ clPc' = "classify"
    /\ UNCHANGED <<pipelineVars, clIn, signVars, policyVars, parseVars,
                   exactVars, imageVars, envVars, numVars, tarVars, groupVars>>

\* A step 7 that stamps every result with the digest of one fixed job.
ClClassifyStaleHash ==
    /\ clPc = "classify"
    /\ LET c == Classify(clIn.timed_out, clOut.success, clIn.exit_code,
                         clOut.verification_level, clOut.output_comparisons) IN
         clOut' = [clOut EXCEPT !.level = c.level, !.passed = c.passed,
                                !.code_hash = "sha_a"]
    /\ clPc' = "built"
    /\ UNCHANGED <<pipelineVars, clIn, signVars, policyVars, parseVars,
                   exactVars, imageVars, envVars, numVars, tarVars, groupVars>>

\* Steps 6 and 7: the classification and VerificationResult(...), which
\* takes code_hash from the job.
ClClassify ==
    /\ clPc = "classify"
    /\ LET c == Classify(clIn.timed_out, clOut.success, clIn.exit_code,
                         clOut.verification_level, clOut.output_comparisons) IN
         clOut' = [clOut EXCEPT !.level = c.level, !.passed = c.passed,
                                !.code_hash = clIn.code_hash]
    /\ clPc' = "built"
    /\ UNCHANGED <<pipelineVars, clIn, signVars, policyVars, parseVars,
                   exactVars, imageVars, envVars, numVars, tarVars, groupVars>>

ClassifyNext ==
    \/ \E timed_out \in BOOLEAN, exit_code \in ExitCodes,
          runner_type \in RunnerTypes, expected \in ExpectedLists,
          code_hash \in CodeHashes :
           ClCall(timed_out, exit_code, runner_type, expected, code_hash)
    \/ ClParse \/ ClCompare \/ ClClassify

ClassifySpec == Init /\ [][ClassifyNext]_vars

\* ------------------------------------------------- BaseRunner.parse_output

\* Exit codes a container can end with, and -1 for a wait that failed.
ParseExitCodes == {-1, 0, 1, 2, 137, 255}
\* What the container wrote: nothing, a line of output, an error report.
Stdouts == {"", "result", "error: sorry"}
Stderrs == {"", "type mismatch"}
\* The files collected from /output/, by name.
OutputFiles == {{}, {"result.csv"}}

\* A parser that also treats anything on stderr as a failure.
RunnerOutputStderrFails(runner, exit_code, stdout, stderr, output_files) ==
    LET o == parse_output(runner, IF stderr = "" THEN exit_code ELSE 1) IN
      [outputs |-> output_files, logs |-> stdout, errors |-> stderr,
       verification_level |-> o.verification_level, success |-> o.success]

\* The RunnerOutput a runner's parse_output returns: the files, stdout and
\* stderr are passed through; level and success come from the exit code.
RunnerOutput(runner, exit_code, stdout, stderr, output_files) ==
    LET o == parse_output(runner, exit_code) IN
      [outputs |-> output_files, logs |-> stdout, errors |-> stderr,
       verification_level |-> o.verification_level, success |-> o.success]

\* get_runner(runner_type).parse_output(exit_code, stdout, stderr, files).
PoCall(runner_type, exit_code, stdout, stderr, output_files) ==
    /\ poPc = "idle"
    /\ poIn' = [runner_type |-> runner_type, exit_code |-> exit_code,
                stdout |-> stdout, stderr |-> stderr,
                output_files |-> output_files]
    /\ poOut' = RunnerOutput(get_runner(runner_type), exit_code, stdout,
                             stderr, output_files)
    /\ poPc' = "parsed"
    /\ UNCHANGED <<pipelineVars, classifyVars, signVars, policyVars,
                   exactVars, imageVars, envVars, numVars, tarVars, groupVars>>

ParseNext ==
    \E runner_type \in RunnerTypes, exit_code \in ParseExitCodes,
       stdout \in Stdouts, stderr \in Stderrs, output_files \in OutputFiles :
        PoCall(runner_type, exit_code, stdout, stderr, output_files)

ParseSpec == Init /\ [][ParseNext]_vars

\* ------------------------------------------------------------ ResultSigner

\* The signers of two processes: a key loaded from signing_key_path, or the
\* ephemeral key generated when no key file is found.
SigningKeys == {"key_file", "ephemeral"}

Uuids == {1, 2}
\* Aware datetimes: the instant and the UTC offset of the timezone, in hours.
Datetimes == {[utc |-> 10, offset |-> 0], [utc |-> 11, offset |-> 0],
              [utc |-> 10, offset |-> 1]}
Levels == {"L0_UNVERIFIED", "L2_EXECUTION_VERIFIED"}
\* execution_time_seconds, in milliseconds (the worker rounds to 3 digits).
Durations == {0, 1500}

\* The fields of VerificationResult other than signature, and their values.
ResultFields == {"id", "job_id", "claim_id", "verification_level", "passed",
                 "code_hash", "execution_time_seconds", "outputs_matched",
                 "stdout", "stderr", "error_message", "runner_image",
                 "created_at"}

FieldValues(f) ==
    CASE f \in {"id", "job_id", "claim_id"} -> Uuids
      [] f = "verification_level" -> Levels
      [] f = "passed" -> BOOLEAN
      [] f = "code_hash" -> CodeHashes
      [] f = "execution_time_seconds" -> Durations
      [] f = "outputs_matched" -> {<<>>, <<TRUE>>, <<FALSE>>}
      [] f \in {"stdout", "stderr", "error_message"} -> {"None", "text"}
      [] f = "runner_image" -> {"phiacta-verify-runner-python:latest",
                                "phiacta-verify-runner-r:latest"}
      [] f = "created_at" -> Datetimes

\* VerificationResult objects before they are signed (signature = ""): every
\* combination of the fields the payload is built from, with the remaining
\* fields either all at their defaults or all set.
VerificationResults ==
    {[id |-> IF set THEN 2 ELSE 1,
      job_id |-> j, claim_id |-> c, verification_level |-> l, passed |-> p,
      code_hash |-> h, signature |-> <<>>, execution_time_seconds |-> t,
      outputs_matched |-> IF set THEN <<TRUE>> ELSE <<>>,
      stdout |-> IF set THEN "text" ELSE "None",
      stderr |-> IF set THEN "text" ELSE "None",
      error_message |-> IF set THEN "text" ELSE "None",
      runner_image |-> "phiacta-verify-runner-python:latest",
      created_at |-> d] :
        j \in Uuids, c \in Uuids, l \in Levels, p \in BOOLEAN,
        h \in CodeHashes, t \in Durations, d \in Datetimes, set \in BOOLEAN}

\* str(UUID): the canonical text of the identifier.
str(u) == <<"uuid", u>>

\* datetime.isoformat(): the local wall-clock time followed by the offset.
isoformat(d) == [local |-> d.utc + d.offset, offset |-> d.offset]

\* A payload that leaves out the timestamp.
canonical_payload_no_timestamp(r) ==
    [job_id |-> str(r.job_id),
     claim_id |-> str(r.claim_id),
     code_hash |-> r.code_hash,
     verification_level |-> r.verification_level,
     passed |-> r.passed,
     execution_time_seconds |-> r.execution_time_seconds]

\* canonical_payload: json.dumps(..., sort_keys=True) of the seven critical
\* fields; two payloads are the same bytes iff the seven values are the same.
canonical_payload(r) ==
    [job_id |-> str(r.job_id),
     claim_id |-> str(r.claim_id),
     code_hash |-> r.code_hash,
     verification_level |-> r.verification_level,
     passed |-> r.passed,
     execution_time_seconds |-> r.execution_time_seconds,
     created_at |-> isoformat(r.created_at)]

\* Ed25519: a signature is valid for exactly the key that made it and the
\* message it was made over.
Ed25519Sign(key, msg) == [key |-> key, msg |-> msg]
Ed25519Verify(key, sig, msg) == sig.key = key /\ sig.msg = msg

\* base64.b64encode(...).decode() and base64.b64decode; the empty string
\* decodes to the empty byte string.
b64encode(x) == <<x>>
b64decode(t) == IF t = <<>> THEN [key |-> "none", msg |-> <<>>] ELSE t[1]

\* ResultSigner.sign.
sign(key, r) == b64encode(Ed25519Sign(key, canonical_payload(r)))

\* ResultSigner.verify: True when public_key.verify accepts, False when it
\* raises InvalidSignature.
verify(key, r, signature) ==
    Ed25519Verify(key, b64decode(signature), canonical_payload(r))

\* A serialiser that writes the wall-clock time and drops the offset.
DumpDatetimeNaive(d) == [local |-> d.utc + d.offset, zone |-> "Z"]

\* pydantic's JSON form of an aware datetime: wall-clock time, then "Z" for
\* UTC or the offset; and the parser of that form.
DumpDatetime(d) ==
    [local |-> d.utc + d.offset,
     zone |-> IF d.offset = 0 THEN "Z" ELSE "+01:00"]
LoadDatetime(t) ==
    LET off == IF t.zone = "Z" THEN 0 ELSE 1 IN
      [utc |-> t.local - off, offset |-> off]

\* result.model_dump_json() as store_result writes it, and
\* VerificationResult.model_validate_json as get_result reads it.
model_dump_json(r) ==
    [r EXCEPT !.id = str(@), !.job_id = str(@), !.claim_id = str(@),
              !.created_at = DumpDatetime(@)]
model_validate_json(t) ==
    [t EXCEPT !.id = @[2], !.job_id = @[2], !.claim_id = @[2],
              !.created_at = LoadDatetime(@)]

\* signer.sign(result) on a result that was just built.
SgSign(key, r) ==
    /\ sgPc = "idle"
    /\ sgIn' = [signer |-> key, result |-> r]
    /\ sgRes' = r
    /\ sgSig' = sign(key, r)
    /\ sgPc' = "signed"
    /\ UNCHANGED <<pipelineVars, classifyVars, sgChanged, sgOk, policyVars,
                   parseVars, exactVars, imageVars, envVars, numVars, tarVars,
                   groupVars>>

\* process_job: result.signature = signer.sign(result).
SgAttach ==
    /\ sgPc = "signed"
    /\ sgRes' = [sgRes EXCEPT !.signature = sgSig]
    /\ sgChanged' = "signature"
    /\ sgPc' = "attached"
    /\ UNCHANGED <<pipelineVars, classifyVars, sgIn, sgSig, sgOk, policyVars,
                   parseVars, exactVars, imageVars, envVars, numVars, tarVars,
                   groupVars>>

\* queue.store_result followed by queue.get_result: the result a reader
\* holds is the one parsed back from the stored JSON.
SgStore ==
    /\ sgPc = "attached"
    /\ sgRes' = model_validate_json(model_dump_json(sgRes))
    /\ sgChanged' = "stored"
    /\ sgPc' = "stored"
    /\ UNCHANGED <<pipelineVars, classifyVars, sgIn, sgSig, sgOk, policyVars,
                   parseVars, exactVars, imageVars, envVars, numVars, tarVars,
                   groupVars>>

\* An assignment to one field of a signed result (the model does not
\* validate assignments), to a value other than the one it holds.
SgChange(f, v) ==
    /\ sgPc = "signed"
    /\ v # sgRes[f]
    /\ sgRes' = [sgRes EXCEPT ![f] = v]
    /\ sgChanged' = f
    /\ sgPc' = "changed"
    /\ UNCHANGED <<pipelineVars, classifyVars, sgIn, sgSig, sgOk, policyVars,
                   parseVars, exactVars, imageVars, envVars, numVars, tarVars,
                   groupVars>>

\* signer.verify(result, signature) with the signature sign returned; for a
\* stored result, with the signature it carries.
SgVerify ==
    /\ sgPc \in {"signed", "stored", "changed"}
    /\ sgOk' = verify(sgIn.signer, sgRes,
                      IF sgPc = "stored" THEN sgRes.signature ELSE sgSig)
    /\ sgPc' = "verified"
    /\ UNCHANGED <<pipelineVars, classifyVars, sgIn, sgRes, sgSig, sgChanged,
                   policyVars, parseVars, exactVars, imageVars, envVars,
                   numVars, tarVars, groupVars>>

SignNext ==
    \/ \E key \in SigningKeys, r \in VerificationResults : SgSign(key, r)
    \/ SgAttach
    \/ SgStore
    \/ \E f \in ResultFields : \E v \in FieldValues(f) : SgChange(f, v)
    \/ SgVerify

SignSpec == Init /\ [][SignNext]_vars

\* ---------------------------------------------------------- SecurityPolicy

\* Values passed for a numeric limit, and for cap_drop.
Limits == {0, 64}
SignedLimits == {-1, 0, 64}
CapDrops == {<<"ALL">>, <<>>, <<"NET_RAW">>}

\* The keyword arguments of SecurityPolicy(...), defaults filled in.
PolicyArgs ==
    [network_disabled : BOOLEAN, read_only_rootfs : BOOLEAN,
     memory_limit_mb : SignedLimits, cpu_period : Limits, cpu_quota : Limits,
     pids_limit : Limits, tmpfs_size_mb : Limits,
     timeout_seconds : SignedLimits,
     no_new_privileges : BOOLEAN, cap_drop : CapDrops]

\* A validation that forgets the two CPU fields.
post_init_raises_no_cpu(a) ==
    \/ ~a.network_disabled
    \/ a.memory_limit_mb <= 0
    \/ a.timeout_seconds <= 0
    \/ a.pids_limit <= 0
    \/ a.tmpfs_size_mb <= 0

\* __post_init__: TRUE when it raises ValueError.
post_init_raises(a) ==
    \/ ~a.network_disabled
    \/ a.memory_limit_mb <= 0
    \/ a.timeout_seconds <= 0
    \/ a.pids_limit <= 0
    \/ a.cpu_period <= 0
    \/ a.cpu_quota <= 0
    \/ a.tmpfs_size_mb <= 0

\* The f-string "{n}m".
Megabytes(n) == [number |-> n, unit |-> "m"]

\* to_container_config.  A tmpfs entry "size={n}m,noexec,nosuid" is the
\* mount's size and its set of options.
to_container_config(p) ==
    [network_mode |-> "none",
     read_only |-> p.read_only_rootfs,
     mem_limit |-> Megabytes(p.memory_limit_mb),
     memswap_limit |-> Megabytes(p.memory_limit_mb),
     cpu_period |-> p.cpu_period,
     cpu_quota |-> p.cpu_quota,
     pids_limit |-> p.pids_limit,
     security_opt |-> IF p.no_new_privileges
                        THEN <<"no-new-privileges">> ELSE <<>>,
     cap_drop |-> p.cap_drop,
     tmpfs |-> {[path |-> "/tmp", size |-> Megabytes(p.tmpfs_size_mb),
                 options |-> {"noexec", "nosuid"}]}]

\* The states in which a SecurityPolicy object exists.
PolicyExists == {"built", "frozen", "configured"}

\* SecurityPolicy(**a): the generated __init__ sets the fields, then
\* __post_init__ validates; when it raises, the caller gets no object.
PolConstruct(a) ==
    /\ polPc = "idle"
    /\ polArgs' = a
    /\ IF post_init_raises(a)
         THEN /\ polPc' = "rejected"
              /\ UNCHANGED policy
         ELSE /\ polPc' = "built"
              /\ policy' = a
    /\ UNCHANGED <<pipelineVars, classifyVars, signVars, polCfg, parseVars,
                   exactVars, imageVars, envVars, numVars, tarVars, groupVars>>

\* policy.<f> = v: frozen=True makes __setattr__ raise FrozenInstanceError.
PolSetAttr(f, v) ==
    /\ polPc = "built"
    /\ polPc' = "frozen"
    /\ UNCHANGED <<pipelineVars, classifyVars, signVars, polArgs, policy,
                   polCfg, parseVars, exactVars, imageVars, envVars, numVars,
                   tarVars, groupVars>>

\* host_config = policy.to_container_config().
PolToConfig ==
    /\ polPc \in {"built", "frozen"}
    /\ polCfg' = to_container_config(policy)
    /\ polPc' = "configured"
    /\ UNCHANGED <<pipelineVars, classifyVars, signVars, polArgs, policy,
                   parseVars, exactVars, imageVars, envVars, numVars, tarVars,
                   groupVars>>

PolicyNext ==
    \/ \E a \in PolicyArgs : PolConstruct(a)
    \/ \E f \in {"network_disabled", "memory_limit_mb"} :
          \E v \in {0} : PolSetAttr(f, v)
    \/ PolToConfig

PolicySpec == Init /\ [][PolicyNext]_vars

\* ------------------------------------------------ ExactComparator.compare

\* Longest payload handed to a comparator.
MaxLen == 3

\* Bytes of a payload: a letter, a space, a line feed, and 0xFF, which no
\* UTF-8 text contains.
Bytes == {"a", " ", "LF", "xFF"}
Payloads == UNION {[1..n -> Bytes] : n \in 0..MaxLen}

\* bytes.decode("utf-8") succeeds; the text then has the payload's characters.
Decodes(x) == \A i \in 1..Len(x) : x[i] # "xFF"

\* Position of the first line feed of t, or 0.
FirstLF(t) ==
    IF \E i \in 1..Len(t) : t[i] = "LF"
      THEN CHOOSE i \in 1..Len(t) :
               t[i] = "LF" /\ \A k \in 1..(i - 1) : t[k] # "LF"
      ELSE 0

\* str.splitlines(): the lines without their terminators; a terminator at
\* the very end does not open another line.
RECURSIVE splitlines(_)
splitlines(t) ==
    IF t = <<>> THEN <<>>
    ELSE IF FirstLF(t) = 0 THEN <<t>>
    ELSE <<SubSeq(t, 1, FirstLF(t) - 1)>>
             \o splitlines(SubSeq(t, FirstLF(t) + 1, Len(t)))

\* str.rstrip(): the line without its trailing whitespace.
RECURSIVE rstrip(_)
rstrip(line) ==
    IF line # <<>> /\ line[Len(line)] = " "
      THEN rstrip(SubSeq(line, 1, Len(line) - 1))
      ELSE line

\* while stripped and stripped[-1] == "": stripped.pop()
RECURSIVE PopEmpty(_)
PopEmpty(lines) ==
    IF lines # <<>> /\ lines[Len(lines)] = <<>>
      THEN PopEmpty(SubSeq(lines, 1, Len(lines) - 1))
      ELSE lines

\* "\n".join(lines)
RECURSIVE join(_)
join(lines) ==
    IF lines = <<>> THEN <<>>
    ELSE IF Len(lines) = 1 THEN lines[1]
    ELSE lines[1] \o <<"LF">> \o join(Tail(lines))

\* [line.rstrip() for line in text.splitlines()]
Stripped(text) ==
    [i \in 1..Len(splitlines(text)) |-> rstrip(splitlines(text)[i])]

\* A normalisation that keeps the empty lines at the end.
normalize_text_keep_empty(text) == join(Stripped(text))

\* _normalize_text.
normalize_text(text) == join(PopEmpty(Stripped(text)))

\* ExactComparator.compare: text mode when both payloads decode, binary
\* mode otherwise; the score is 1.0 for a match and 0.0 otherwise.
ExactCompare(expected, actual) ==
    LET text == Decodes(expected) /\ Decodes(actual)
        matched == IF text
                     THEN normalize_text(expected) = normalize_text(actual)
                     ELSE expected = actual
    IN  [matched |-> matched,
         score |-> IF matched THEN 1 ELSE 0,
         mode |-> IF text THEN "text" ELSE "binary"]

\* process_job decodes the expected content of one expected output.
ExExpected(expected) ==
    /\ exPc = "idle"
    /\ exIn' = [exIn EXCEPT !.expected = expected]
    /\ exPc' = "expected"
    /\ UNCHANGED <<pipelineVars, classifyVars, signVars, policyVars,
                   parseVars, exOut, imageVars, envVars, numVars, tarVars,
                   groupVars>>

\* comparator.compare(expected_data, actual_data, ...) with the file of
\* that name from the runner's outputs.
ExCall(actual) ==
    /\ exPc = "expected"
    /\ exIn' = [exIn EXCEPT !.actual = actual]
    /\ exOut' = ExactCompare(exIn.expected, actual)
    /\ exPc' = "compared"
    /\ UNCHANGED <<pipelineVars, classifyVars, signVars, policyVars,
                   parseVars, imageVars, envVars, numVars, tarVars, groupVars>>

ExactNext ==
    \/ \E expected \in Payloads : ExExpected(expected)
    \/ \E actual \in Payloads : ExCall(actual)

ExactSpec == Init /\ [][ExactNext]_vars

\* ------------------------------------------------ ImageComparator.compare

\* Payloads of image files, over two byte values.
ImageBytes == {0, 255}
ImagePayloads == UNION {[1..n -> ImageBytes] : n \in 0..MaxLen}

\* Thresholds a caller may pass, as fractions; 19/20 is _DEFAULT_THRESHOLD.
Thresholds == {[num |-> 0, den |-> 1], [num |-> 1, den |-> 2],
               [num |-> 2, den |-> 3], [num |-> 19, den |-> 20],
               [num |-> 1, den |-> 1], [num |-> 3, den |-> 2]}

\* hashlib.sha256(x).hexdigest(): equal digests iff equal payloads.
sha256(x) == <<"sha256", x>>

\* p >= q for two fractions with positive denominators.
AtLeast(p, q) == p.num * q.den >= q.num * p.den

Min(m, n) == IF m <= n THEN m ELSE n
Max(m, n) == IF m >= n THEN m ELSE n

chunk_size == 65536

\* The chunk loop of _byte_similarity, from `offset` on: the number of
\* positions below min_len at which a and b hold the same byte.
RECURSIVE ChunkLoop(_, _, _, _)
ChunkLoop(a, b, offset, min_len) ==
    IF offset >= min_len THEN 0
    ELSE LET end == Min(offset + chunk_size, min_len) IN
           Cardinality({i \in (offset + 1)..end : a[i] = b[i]})
             + ChunkLoop(a, b, offset + chunk_size, min_len)

\* A count that takes the shorter payload as the total.
byte_similarity_overlap_only(a, b) ==
    IF Max(Len(a), Len(b)) = 0
      THEN [bytes_total |-> 0, bytes_matching |-> 0]
      ELSE [bytes_total |-> Min(Len(a), Len(b)),
            bytes_matching |-> ChunkLoop(a, b, 0, Min(Len(a), Len(b)))]

\* _byte_similarity.
byte_similarity(a, b) ==
    IF Max(Len(a), Len(b)) = 0
      THEN [bytes_total |-> 0, bytes_matching |-> 0]
      ELSE [bytes_total |-> Max(Len(a), Len(b)),
            bytes_matching |-> ChunkLoop(a, b, 0, Min(Len(a), Len(b)))]

\* ImageComparator.compare; the score is kept as a fraction.
ImageCompare(expected, actual, threshold) ==
    IF sha256(expected) = sha256(actual)
      THEN [matched |-> TRUE,
            score |-> [num |-> 1, den |-> 1],
            bytes_total |-> Len(expected),
            bytes_matching |-> Len(expected)]
      ELSE LET c == byte_similarity(expected, actual)
               similarity == IF c.bytes_total > 0
                               THEN [num |-> c.bytes_matching,
                                     den |-> c.bytes_total]
                               ELSE [num |-> 0, den |-> 1]
           IN  [matched |-> AtLeast(similarity, threshold),
                score |-> similarity,
                bytes_total |-> c.bytes_total,
                bytes_matching |-> c.bytes_matching]

\* process_job decodes the expected content of one expected output.
ImExpected(expected) ==
    /\ imPc = "idle"
    /\ imIn' = [imIn EXCEPT !.expected = expected]
    /\ imPc' = "expected"
    /\ UNCHANGED <<pipelineVars, classifyVars, signVars, policyVars,
                   parseVars, exactVars, imOut, envVars, numVars, tarVars,
                   groupVars>>

\* ImageComparator().compare(expected, actual, threshold=threshold).
ImCall(actual, threshold) ==
    /\ imPc = "expected"
    /\ imIn' = [imIn EXCEPT !.actual = actual, !.threshold = threshold]
    /\ imOut' = ImageCompare(imIn.expected, actual, threshold)
    /\ imPc' = "compared"
    /\ UNCHANGED <<pipelineVars, classifyVars, signVars, policyVars,
                   parseVars, exactVars, envVars, numVars, tarVars, groupVars>>

ImageNext ==
    \/ \E expected \in ImagePayloads : ImExpected(expected)
    \/ \E actual \in ImagePayloads, threshold \in Thresholds :
           ImCall(actual, threshold)

ImageSpec == Init /\ [][ImageNext]_vars

\* ------------------------------------------- environment variables of a job

\* Names of environment variables a job or a caller of sandbox.run supplies:
\* blocklisted ones in several spellings, and harmless ones.
EnvNames == {"LD_PRELOAD", "ld_preload", "Path", "MY_VAR", "my_var"}
EnvValues == {"a", "b"}

\* dict[str, str] over these names.
EnvDicts == UNION {[S -> EnvValues] : S \in SUBSET EnvNames}
EmptyDict == [n \in {} |-> "a"]

\* str.upper.
upper(key) ==
    CASE key = "ld_preload" -> "LD_PRELOAD"
      [] key = "Path" -> "PATH"
      [] key = "my_var" -> "MY_VAR"
      [] OTHER -> key

_BLOCKED_ENV_VARS ==
    {"LD_PRELOAD", "LD_LIBRARY_PATH", "PYTHONSTARTUP", "PYTHONPATH",
     "PYTHONINSPECT", "PYTHONBREAKPOINT", "RUBYOPT", "PERL5OPT",
     "NODE_OPTIONS", "JAVA_TOOL_OPTIONS", "R_PROFILE", "R_PROFILE_USER",
     "R_ENVIRON", "R_ENVIRON_USER", "JULIA_LOAD_PATH", "JULIA_DEPOT_PATH",
     "BASH_ENV", "ENV", "CDPATH", "GLOBIGNORE", "PATH", "HOME"}

\* job.environment_spec: absent (or without an "env" key), or with one.
EnvironmentSpecs ==
    {[has_env |-> FALSE, env |-> EmptyDict]}
        \cup {[has_env |-> TRUE, env |-> d] : d \in EnvDicts}

\* The env_vars of the PreparedExecution every runner's prepare returns:
\* an empty dict updated with job.environment_spec["env"].
prepare_env_vars(environment_spec) ==
    IF environment_spec.has_env THEN environment_spec.env ELSE EmptyDict

\* The filter with the blocklist looked up by the name as it is spelled.
safe_env_case_sensitive(passed, env_vars) ==
    IF passed /\ DOMAIN env_vars # {}
      THEN [key \in {k \in DOMAIN env_vars : k \notin _BLOCKED_ENV_VARS}
               |-> env_vars[key]]
      ELSE EmptyDict

\* ContainerSandbox.run, step 4: safe_env.  `passed` is false when the
\* env_vars parameter took its default None; None and {} are both falsy.
safe_env(passed, env_vars) ==
    IF passed /\ DOMAIN env_vars # {}
      THEN [key \in {k \in DOMAIN env_vars : upper(k) \notin _BLOCKED_ENV_VARS}
               |-> env_vars[key]]
      ELSE EmptyDict

\* process_job, step 1: prepared = runner.prepare(job).
EvPrepare(environment_spec) ==
    /\ evPc = "idle"
    /\ evPc' = "prepared"
    /\ evIn' = [caller |-> "process_job",
                prepared |-> prepare_env_vars(environment_spec),
                passed |-> FALSE, env_vars |-> EmptyDict]
    /\ evOut' = None
    /\ UNCHANGED <<pipelineVars, classifyVars, signVars, policyVars,
                   parseVars, exactVars, imageVars, numVars, tarVars,
                   groupVars>>

\* process_job, step 3: sandbox.run(image=, command=, code_files=,
\* data_files=, policy=).  env_vars is not among the arguments, so the
\* parameter takes its default.
EvProcessJob ==
    /\ evPc = "prepared"
    /\ evPc' = "run"
    /\ UNCHANGED <<pipelineVars, classifyVars, signVars, policyVars,
                   parseVars, exactVars, imageVars, evIn, evOut, numVars,
                   tarVars, groupVars>>

\* Any other caller of sandbox.run that passes env_vars.
EvRun(env_vars) ==
    /\ evPc = "idle"
    /\ evPc' = "run"
    /\ evIn' = [caller |-> "direct", prepared |-> EmptyDict,
                passed |-> TRUE, env_vars |-> env_vars]
    /\ evOut' = None
    /\ UNCHANGED <<pipelineVars, classifyVars, signVars, policyVars,
                   parseVars, exactVars, imageVars, numVars, tarVars,
                   groupVars>>

\* ContainerSandbox.run, steps 4 and 5: containers.create(...,
\* environment=safe_env, ...).
EvCreate ==
    /\ evPc = "run"
    /\ evPc' = "created"
    /\ evOut' = safe_env(evIn.passed, evIn.env_vars)
    /\ UNCHANGED <<pipelineVars, classifyVars, signVars, policyVars,
                   parseVars, exactVars, imageVars, evIn, numVars, tarVars,
                   groupVars>>

\* sandbox.run returns; the next job or call starts from scratch.
EvReturn ==
    /\ evPc = "created"
    /\ evPc' = "idle"
    /\ evIn' = None
    /\ evOut' = None
    /\ UNCHANGED <<pipelineVars, classifyVars, signVars, policyVars,
                   parseVars, exactVars, imageVars, numVars, tarVars,
                   groupVars>>

EnvNext ==
    \/ \E environment_spec \in EnvironmentSpecs : EvPrepare(environment_spec)
    \/ EvProcessJob
    \/ \E env_vars \in EnvDicts : EvRun(env_vars)
    \/ EvCreate
    \/ EvReturn

EnvSpec == Init /\ [][EnvNext]_vars

\* ----------------------------------------------- NumericalComparator.compare

\* Most numbers in one payload.
MaxNumbers == 2

\* Number literals _NUMBER_RE finds in a payload, one per line.
NumTokens == {"0", "100", "101", "110"}
NumPayloads == UNION {[1..n -> NumTokens] : n \in 0..MaxNumbers}

\* _to_float: the value of a literal.
_to_float(token) ==
    CASE token = "0" -> 0
      [] token = "100" -> 100
      [] token = "101" -> 101
      [] token = "110" -> 110

\* _parse_numbers: the values of the literals of the payload, in order.
_parse_numbers(data) == [i \in 1..Len(data) |-> _to_float(data[i])]

\* A tolerance num * 10^-exp.
_DEFAULT_RTOL == [num |-> 1, exp |-> 10]
_DEFAULT_ATOL == [num |-> 1, exp |-> 12]

\* ExpectedOutput.tolerance and the rtol/atol a caller passes: 0, 0.01, 1, 10.
Tolerances ==
    {[num |-> 0, exp |-> 0], [num |-> 1, exp |-> 2], [num |-> 1, exp |-> 0],
     [num |-> 10, exp |-> 0]}

\* kwargs.get(key, default).
kwargs_get(kwargs, key, default) ==
    IF key \in DOMAIN kwargs THEN kwargs[key] ELSE default

RECURSIVE Div10(_, _)
Div10(n, k) == IF k = 0 THEN n ELSE Div10(n \div 10, k - 1)

\* floor(100 * tol * x) for a non-negative integer x.
Hundredths(tol, x) == Div10(100 * tol.num * x, tol.exp)

Abs(x) == IF x < 0 THEN 0 - x ELSE x

\* _values_close on finite values: abs_err <= atol + rtol * abs(expected).
\* Both sides are taken in hundredths.  abs_err is an integer here, and each
\* tolerance is either a multiple of 1/100 or a default whose term stays
\* below 1/200 for these values, so the floor of the right-hand side is the
\* sum of the floors of its two terms and the test is exact.
_values_close(expected, actual, rtol, atol) ==
    \/ expected = actual
    \/ 100 * Abs(expected - actual)
          <= Hundredths(atol, 1) + Hundredths(rtol, Abs(expected))

\* NumericalComparator.compare: matched iff there is no mismatch; a value
\* without a partner is a mismatch, and two empty payloads match.
NumericalCompare(expected, actual, kwargs) ==
    LET rtol == kwargs_get(kwargs, "rtol", _DEFAULT_RTOL)
        atol == kwargs_get(kwargs, "atol", _DEFAULT_ATOL)
        expected_values == _parse_numbers(expected)
        actual_values == _parse_numbers(actual)
        count == Max(Len(expected_values), Len(actual_values))
        pairs == Min(Len(expected_values), Len(actual_values))
        mismatches ==
            {i \in 1..pairs :
                ~_values_close(expected_values[i], actual_values[i],
                               rtol, atol)}
                \cup (pairs + 1)..count
    IN [matched |-> mismatches = {}, values_compared |-> count]

\* The caller fixes the expected payload.
NuExpected(expected) ==
    /\ nuPc = "idle"
    /\ nuPc' = "expected"
    /\ nuIn' = [caller |-> "none", expected |-> expected, actual |-> <<>>,
                has_tolerance |-> FALSE, kwargs |-> <<>>]
    /\ nuOut' = None
    /\ UNCHANGED <<pipelineVars, classifyVars, signVars, policyVars,
                   parseVars, exactVars, imageVars, envVars, tarVars,
                   groupVars>>

\* process_job, step 5, for an expected output whose comparison method is
\* NUMERICAL_TOLERANCE: comparator.compare(expected_data, actual_data,
\* tolerance=expected.tolerance).  has_tolerance is false when
\* expected.tolerance is None.
NuProcessJob(actual, has_tolerance, tolerance) ==
    /\ nuPc = "expected"
    /\ nuPc' = "compared"
    /\ nuIn' = [nuIn EXCEPT !.caller = "process_job", !.actual = actual,
                            !.has_tolerance = has_tolerance,
                            !.kwargs = [tolerance |-> tolerance]]
    /\ nuOut' = NumericalCompare(nuIn.expected, actual,
                                 [tolerance |-> tolerance])
    /\ UNCHANGED <<pipelineVars, classifyVars, signVars, policyVars,
                   parseVars, exactVars, imageVars, envVars, tarVars,
                   groupVars>>

\* Any other caller of compare, with the keyword arguments the comparator
\* documents.
NuCompare(actual, kwargs) ==
    /\ nuPc = "expected"
    /\ nuPc' = "compared"
    /\ nuIn' = [nuIn EXCEPT !.caller = "direct", !.actual = actual,
                            !.kwargs = kwargs]
    /\ nuOut' = NumericalCompare(nuIn.expected, actual, kwargs)
    /\ UNCHANGED <<pipelineVars, classifyVars, signVars, policyVars,
                   parseVars, exactVars, imageVars, envVars, tarVars,
                   groupVars>>

\* compare has returned; the next comparison starts from scratch.
NuReturn ==
    /\ nuPc = "compared"
    /\ nuPc' = "idle"
    /\ nuIn' = None
    /\ nuOut' = None
    /\ UNCHANGED <<pipelineVars, classifyVars, signVars, policyVars,
                   parseVars, exactVars, imageVars, envVars, tarVars,
                   groupVars>>

NumNext ==
    \/ \E expected \in NumPayloads : NuExpected(expected)
    \/ \E actual \in NumPayloads, has_tolerance \in BOOLEAN,
          tolerance \in Tolerances :
            /\ ~has_tolerance => tolerance = [num |-> 0, exp |-> 0]
            /\ NuProcessJob(actual, has_tolerance, tolerance)
    \/ \E actual \in NumPayloads, t \in Tolerances :
          \/ NuCompare(actual, [rtol |-> t])
          \/ NuCompare(actual, [atol |-> t])
    \/ NuReturn

NumSpec == Init /\ [][NumNext]_vars

\* ------------------------------------------------ _extract_tar, output names

\* Most members of one archive.
MaxMembers == 2

\* Member names, each as the list name.split("/"): "output/a",
\* "output/sub/a", "output/", "output", "other/x", "/abs", "output/../x",
\* "output/..", "output//etc".
MemberNames ==
    {<<"output", "a">>, <<"output", "sub", "a">>, <<"output", "">>,
     <<"output">>, <<"other", "x">>, <<"", "abs">>,
     <<"output", "..", "x">>, <<"output", "..">>, <<"output", "", "etc">>}

\* Member types: regular file, directory, symbolic link.
MemberTypes == {"file", "dir", "symlink"}
Members == [type : MemberTypes, name : MemberNames]
Archives == UNION {[1..n -> Members] : n \in 0..MaxMembers}

\* name.startswith("/") and name.startswith("output/") on the split form.
startswith_slash(name) == Len(name) >= 2 /\ name[1] = ""
startswith_output(name) == Len(name) >= 2 /\ name[1] = "output"

\* ".." in name.split("/").
has_dotdot(name) == \E i \in 1..Len(name) : name[i] = ".."

\* _extract_tar: the members put into the result, by index.
Extracted(archive) ==
    {i \in 1..Len(archive) :
        /\ archive[i].type = "file"
        /\ ~(startswith_slash(archive[i].name) \/ has_dotdot(archive[i].name))}

\* clean_name: the name without a leading "output/".
clean_name(name) == IF startswith_output(name) THEN Tail(name) ELSE name

\* The result dict of _extract_tar, then `cleaned`: for every key the member
\* whose content is stored under it.  Assigning to a key that exists keeps
\* the key's place and replaces the content, and `cleaned` is filled in the
\* order of the keys of the result.
output_files(archive) ==
    LET kept == Extracted(archive)
        first(n) == CHOOSE i \in kept :
                       /\ archive[i].name = n
                       /\ \A j \in kept : archive[j].name = n => i <= j
        last(n) == CHOOSE i \in kept :
                       /\ archive[i].name = n
                       /\ \A j \in kept : archive[j].name = n => j <= i
        keys == {archive[i].name : i \in kept}
        cleaned == {clean_name(n) : n \in keys} \ {<<"">>}
        winner(c) == CHOOSE n \in keys :
                        /\ clean_name(n) = c
                        /\ \A m \in keys :
                              clean_name(m) = c => first(m) <= first(n)
    IN {[name |-> c, member |-> last(winner(c))] : c \in cleaned}

\* ContainerSandbox.run, step 8: get_archive("/output/"), _extract_tar and
\* the stripping of the prefix.
TaGetArchive(archive) ==
    /\ taPc = "idle"
    /\ taPc' = "extracted"
    /\ taIn' = archive
    /\ taOut' = output_files(archive)
    /\ UNCHANGED <<pipelineVars, classifyVars, signVars, policyVars,
                   parseVars, exactVars, imageVars, envVars, numVars,
                   groupVars>>

\* run returns the SandboxResult; the next call starts from scratch.
TaReturn ==
    /\ taPc = "extracted"
    /\ taPc' = "idle"
    /\ taIn' = None
    /\ taOut' = None
    /\ UNCHANGED <<pipelineVars, classifyVars, signVars, policyVars,
                   parseVars, exactVars, imageVars, envVars, numVars,
                   groupVars>>

TarNext ==
    \/ \E archive \in Archives : TaGetArchive(archive)
    \/ TaReturn

TarSpec == Init /\ [][TarNext]_vars

\* ------------------------------------------- the consumer group of the stream

\* Most entries appended to the stream.
MaxAppends == 3

\* XGROUP CREATE with id "$": a new group starts behind the entries the
\* stream already holds.
xgroup_create_at_end(group, len) ==
    IF group.exists THEN group
    ELSE [exists |-> TRUE, last_delivered |-> len, created_at |-> len]

\* xgroup_create(STREAM_KEY, group, id="0", mkstream=True) inside dequeue's
\* try: a new group starts before the first entry; for a group that exists
\* Redis answers BUSYGROUP, which dequeue swallows, and the group is left as
\* it is.  created_at records the length of the stream at the creation.
xgroup_create(group, len) ==
    IF group.exists THEN group
    ELSE [exists |-> TRUE, last_delivered |-> 0, created_at |-> len]

\* enqueue's XADD.
GrXAdd ==
    /\ grLen < MaxAppends
    /\ grLen' = grLen + 1
    /\ UNCHANGED <<pipelineVars, classifyVars, signVars, policyVars,
                   parseVars, exactVars, imageVars, envVars, numVars,
                   tarVars, grGroup, grLog>>

\* dequeue by consumer c: xgroup_create, then XREADGROUP ">" count=1, which
\* delivers the entry after the group's last-delivered id, if there is one.
GrDequeue(c) ==
    LET group == xgroup_create(grGroup, grLen) IN
    /\ IF NewEntries([i \in 1..grLen |-> i], group.last_delivered) # {}
         THEN /\ grGroup' = [group EXCEPT !.last_delivered = @ + 1]
              /\ grLog' = Append(grLog, [id |-> group.last_delivered + 1,
                                         consumer |-> c])
         ELSE /\ grGroup' = group
              /\ UNCHANGED grLog
    /\ UNCHANGED <<pipelineVars, classifyVars, signVars, policyVars,
                   parseVars, exactVars, imageVars, envVars, numVars,
                   tarVars, grLen>>

\* dequeue whose XREADGROUP raises after xgroup_create went through.
GrReadFails ==
    /\ grGroup' = xgroup_create(grGroup, grLen)
    /\ UNCHANGED <<pipelineVars, classifyVars, signVars, policyVars,
                   parseVars, exactVars, imageVars, envVars, numVars,
                   tarVars, grLen, grLog>>

GroupNext ==
    \/ GrXAdd
    \/ \E c \in Workers : GrDequeue(c)
    \/ GrReadFails

\* The stream and its group with workers that keep calling dequeue and a
\* backend that answers again after an error.
GroupSpec ==
    Init /\ [][GroupNext]_vars /\ WF_vars(\E c \in Workers : GrDequeue(c))

\* --------------------------------------------------------------- claims

\* Ids of the stream entries that dequeue returned to run_worker.
Returned ==
    {deliveryLog[i].id : i \in {k \in DOMAIN deliveryLog :
                                    stream[deliveryLog[k].id].ok}}

\* Number of times entry m has been delivered by XREADGROUP.
Deliveries(m) == Cardinality({i \in DOMAIN deliveryLog : deliveryLog[i].id = m})

\* No worker is inside the for-loop body for entry m.
Abandoned(m) == \A w \in Workers : cur[w] # m

\* Largest id a stream entry can have.
MaxStream == NJobs + 1

\* C1: for every (message id, job) pair that dequeue returned to run_worker,
\* once the for-loop body for it has ended (process_job returned, raised an
\* error or was cancelled), queue.acknowledge has been called for that id.
C1_AcknowledgeAlwaysCalled ==
    \A m \in Returned : Abandoned(m) => m \in ackCalled

\* C1 witness: process_job failed for a message (its job is FAILED), the
\* loop body has ended and acknowledge was called for it.
C1_Witness ==
    \E m \in Returned :
        /\ Abandoned(m)
        /\ status[JobOf(m)] = "FAILED"
        /\ m \in ackCalled

\* C2: whenever process_job raised an Exception for a dequeued job, the
\* handler leaves the job's stored status FAILED, and run_worker does not
\* end other than by cancellation.
C2_ExceptionsBecomeFailed ==
    [][\A w \in Workers :
          /\ (pc[w] = "failed" /\ pc'[w] # "failed"
                /\ cancelledAt'[w] = cancelledAt[w])
               => status'[JobOf(cur[w])] = "FAILED"
          /\ (pc[w] # "done" /\ pc'[w] = "done") => cancelledAt'[w] # -1]_vars

\* C3: the stored status of a job never goes back from RUNNING to QUEUED,
\* and a terminal status never changes again.
C3_StatusOnlyAdvances ==
    [][\A j \in JobIds :
          /\ status[j] = "RUNNING" => status'[j] # "QUEUED"
          /\ status[j] \in Terminal => status'[j] = status[j]]_vars

\* The exits of ContainerSandbox.run.
SbExits == {"returned", "raised", "cancelled"}

\* Containers the backend created / removed for the call.
Creates == IF backend = "none" THEN 0 ELSE 1
Removes == IF backend = "removed" THEN 1 ELSE 0

\* C4: when run exits, on every exit path, every container the backend
\* created for the call has been removed: creates = removes.
C4_ContainerAlwaysRemoved ==
    sbPc \in SbExits => Creates = Removes

\* C5: when run exits, on every exit path, the code and data temp
\* directories created by the call are deleted.
C5_TempDirsAlwaysDeleted ==
    sbPc \in SbExits => dirsOnDisk = {}

C7_PendingRedelivered ==
    \A m \in 1..MaxStream :
        (m \in pel /\ Abandoned(m)) ~> (m \notin pel \/ Deliveries(m) >= 2)

\* C8: once dequeue has read an entry whose data does not deserialise, the
\* job's status is FAILED and the entry is no longer pending in the group.
C8_PoisonFailedAndAcked ==
    \A i \in DOMAIN deliveryLog :
        ~stream[deliveryLog[i].id].ok =>
            /\ status[JobOf(deliveryLog[i].id)] = "FAILED"
            /\ deliveryLog[i].id \notin pel

\* C9: when run_worker has exited after being cancelled while process_job
\* ran for a job, the job is COMPLETED with its result stored or FAILED,
\* and its message has been acknowledged.
C9_CancelledJobSettled ==
    \A w \in Workers :
        (pc[w] = "done" /\ cancelledAt[w] > 0) =>
            /\ \/ status[JobOf(cancelledAt[w])] = "FAILED"
               \/ /\ status[JobOf(cancelledAt[w])] = "COMPLETED"
                  /\ result[JobOf(cancelledAt[w])] # NoResult
            /\ cancelledAt[w] \in ackCalled
            /\ cancelledAt[w] \notin pel

\* C10: a result is stored for a job if and only if its status is COMPLETED.
C10_ResultIffCompleted ==
    \A j \in JobIds : (result[j] # NoResult) <=> (status[j] = "COMPLETED")

\* C11: when process_job returns for a job whose sandbox run timed out (the
\* worker has stored the result and written its last status for the job),
\* the stored status of the job is TIMED_OUT.
C11_TimedOutStatus ==
    [][\A w \in Workers :
          (/\ pc[w] = "store_status"
           /\ sres[w] = "timeout"
           /\ pc'[w] = "ack"
           /\ cancelledAt'[w] = cancelledAt[w])
              => status'[JobOf(cur[w])] = "TIMED_OUT"]_vars

\* The classification has built its result.
Built == clPc = "built"

\* C12: a run that reported timed_out gets level L0 and passed = false,
\* whatever the exit code, the runner and the expected outputs.
C12_TimedOutIsL0 ==
    (Built /\ clIn.timed_out)
        => (clOut.level = "L0_UNVERIFIED" /\ ~clOut.passed)

\* C12 witness: a timed-out Lean run with exit code 0 and an expected output
\* that matched has been classified L0, not passed.
C12_Witness ==
    /\ Built
    /\ clIn.timed_out
    /\ clIn.exit_code = 0
    /\ clIn.runner_type = "LEAN4"
    /\ clIn.expected_outputs = <<"matched">>
    /\ clOut.level = "L0_UNVERIFIED"
    /\ ~clOut.passed

C14_FailedRunLevels ==
    (Built /\ ~clIn.timed_out /\ ~clOut.success) =>
        /\ ~clOut.passed
        /\ clOut.level = IF clIn.exit_code # 0 THEN "L1_SYNTAX_VERIFIED"
                         ELSE "L0_UNVERIFIED"

\* C14 witness: a run with exit code 1 and expected outputs, not timed out,
\* has been classified L1, not passed, with no comparison made.
C14_Witness ==
    /\ Built
    /\ ~clIn.timed_out
    /\ clIn.exit_code = 1
    /\ clIn.expected_outputs # <<>>
    /\ ~clOut.success
    /\ clOut.output_comparisons = <<>>
    /\ clOut.level = "L1_SYNTAX_VERIFIED"
    /\ ~clOut.passed

\* C15: when the job has expected outputs and every comparison made for
\* them matched, the result has level L3 or L4.
C15_MatchAwardsL3orL4 ==
    (/\ Built
     /\ clIn.expected_outputs # <<>>
     /\ clOut.output_comparisons # <<>>
     /\ \A i \in DOMAIN clOut.output_comparisons : clOut.output_comparisons[i])
        => clOut.level \in {"L3_OUTPUT_VERIFIED_DETERMINISTIC",
                            "L4_OUTPUT_VERIFIED_STATISTICAL"}

\* C16: a call of run with an image outside the allow-list raises; no temp
\* directory and no container is ever created for it, whatever the file
\* mappings are.
C16_ImageRejectedFirst ==
    (sbPc # "idle" /\ sbIn.image \notin ALLOWED_IMAGES) =>
        /\ sbPc = "raised"
        /\ ~codeDir /\ ~dataDir /\ dirsOnDisk = {}
        /\ ~container /\ backend = "none"

\* C16 witness: run was called with another tag of an allowed repository
\* and file mappings with a bad and a good key, and has raised.
C16_Witness ==
    /\ sbPc = "raised"
    /\ sbIn.image = "phiacta-verify-runner-python:3.11"
    /\ sbIn.code = <<"rel", "abs">>
    /\ sbIn.data = <<"rel">>
    /\ dirsOnDisk = {}
    /\ backend = "none"

\* Some key of the mapping is an absolute path or has a ".." component.
HasBadKey(keys) == \E i \in 1..Len(keys) : keys[i] \in {"abs", "dotdot"}

\* C17: when a key of code_files or data_files is absolute or has a ".."
\* component, no container is created for the call and the call ends by
\* raising to its caller.
C17_PathTraversalRejected ==
    (sbPc # "idle" /\ (HasBadKey(sbIn.code) \/ HasBadKey(sbIn.data))) =>
        /\ ~container /\ backend = "none"
        /\ sbPc \in {"write_code", "write_data", "finally", "raised"}
        /\ sbPc \in {"finally", "raised"} => sbExc = "error"

\* C17 witness: run was called with an allowed image, good code files and a
\* data mapping with a ".." key; it has created both temp directories,
\* removed them and raised.
C17_Witness ==
    /\ sbPc = "raised"
    /\ sbIn.image \in ALLOWED_IMAGES
    /\ sbIn.code = <<"dots", "rel">>
    /\ sbIn.data = <<"dotdot">>
    /\ codeDir /\ dataDir
    /\ dirsOnDisk = {}
    /\ backend = "none"

Enqueued(j) == \E m \in DOMAIN stream : stream[m].job = j

\* C19: a call of enqueue for a job id that is already in the stream, made
\* after an earlier call for the same id, writes nothing: no stream entry is
\* appended, the stored job data and the job's status stay as they are.
C19_ReenqueueRejected ==
    [][\A j \in Jobs :
          (enqCalls[j] >= 2 /\ Enqueued(j) /\ subPc'[j] # subPc[j]) =>
              /\ stream' = stream
              /\ jobData'[j] = jobData[j]
              /\ status'[j] = status[j]]_vars

\* Position of a status in the life of a job.
StatusRank(st) ==
    CASE st = "NONE" -> 0
      [] st = "QUEUED" -> 1
      [] st = "RUNNING" -> 2
      [] st \in Terminal -> 3

\* Entry m belongs to a job of which another entry has been processed to
\* the end of the for-loop body, and the result of that processing is the
\* one stored.
ProcessedBefore(m) ==
    \E n \in ackCalled :
        /\ n # m
        /\ JobOf(n) = JobOf(m)
        /\ Abandoned(n)
        /\ result[JobOf(n)].id = n

\* C20: while a worker processes an entry of a job that has been processed
\* before, with a result stored, each of its status writes leaves the status
\* at least as far as it was, and the result it stores is the result that
\* is already stored.
C20_ReprocessingIdempotent ==
    [][\A w \in Workers :
          (cur[w] # 0 /\ pc'[w] # pc[w] /\ ProcessedBefore(cur[w])) =>
              LET j == JobOf(cur[w]) IN
              /\ StatusRank(status'[j]) >= StatusRank(status[j])
              /\ result'[j] = result[j]]_vars

SignedFields == {"job_id", "claim_id", "code_hash", "verification_level",
                 "passed", "execution_time_seconds", "created_at"}

C23_TamperDetection ==
    sgPc = "verified" =>
        /\ sgChanged \in SignedFields => ~sgOk
        /\ sgChanged \in ResultFields \ SignedFields => sgOk

\* C23 witness: verify has rejected, with the old signature, a result whose
\* created_at was moved to another timezone at the same instant.
C23_Witness ==
    /\ sgPc = "verified"
    /\ sgChanged = "created_at"
    /\ sgRes.created_at.utc = sgIn.result.created_at.utc
    /\ sgRes.created_at # sgIn.result.created_at
    /\ ~sgOk

\* The config drops every capability.
DropsAll(cfg) == \E i \in 1..Len(cfg.cap_drop) : cfg.cap_drop[i] = "ALL"

\* C24: whatever was passed to the constructor, the config of a constructed
\* policy has network_mode "none" and a cap_drop that drops all capabilities.
C24_NoNetworkNoCapabilities ==
    polPc = "configured" =>
        /\ polCfg.network_mode = "none"
        /\ DropsAll(polCfg)

\* The six numeric limits of a policy.
LimitFields == {"memory_limit_mb", "cpu_period", "cpu_quota", "pids_limit",
                "tmpfs_size_mb", "timeout_seconds"}

C26_TmpfsMounts ==
    polPc = "configured" =>
        /\ \E m \in polCfg.tmpfs :
              /\ m.path = "/tmp"
              /\ m.size = Megabytes(policy.tmpfs_size_mb)
              /\ "nosuid" \in m.options
              /\ "noexec" \notin m.options
        /\ \E m \in polCfg.tmpfs :
              /\ m.path = "/output"
              /\ "noexec" \in m.options

\* C27: for every runner kind, parse_output returns success with the
\* runner's claimed level (L6 for Lean 4, L2 for the others) when the exit
\* code is 0, and failure at L0 for every other exit code, whatever stdout,
\* stderr and the output files are.
C27_ExitCodeDecides ==
    poPc = "parsed" =>
        IF poIn.exit_code = 0
          THEN /\ poOut.success
               /\ poOut.verification_level =
                      IF poIn.runner_type = "LEAN4" THEN "L6_FORMALLY_PROVEN"
                      ELSE "L2_EXECUTION_VERIFIED"
          ELSE /\ ~poOut.success
               /\ poOut.verification_level = "L0_UNVERIFIED"

\* C27 witness: the Lean runner has parsed a run that exited with 0 and
\* wrote an error report to stdout and stderr, yet produced no file.
C27_Witness ==
    /\ poPc = "parsed"
    /\ poIn.runner_type = "LEAN4"
    /\ poIn.exit_code = 0
    /\ poIn.stdout = "error: sorry"
    /\ poIn.stderr # ""
    /\ poIn.output_files = {}
    /\ poOut.success

\* C28: every result process_job builds for the store has the code_hash of
\* the job it was built for.
C28_ResultCarriesJobHash ==
    Built => clOut.code_hash = clIn.code_hash

\* C28 witness: a result has been built for a job whose digest is "sha_b",
\* after a run that failed, and it carries that digest.
C28_Witness ==
    /\ Built
    /\ clIn.code_hash = "sha_b"
    /\ clOut.code_hash = "sha_b"
    /\ ~clOut.passed

\* y is x with one space added where only a line feed or the end of the
\* text follows: trailing whitespace on a line.
AddsTrailingSpace(x, y) ==
    \E p \in 0..Len(x) :
        /\ p = Len(x) \/ x[p + 1] = "LF"
        /\ y = SubSeq(x, 1, p) \o <<" ">> \o SubSeq(x, p + 1, Len(x))

\* y is x with one more line feed at the end: a trailing empty line.
AddsTrailingLine(x, y) == y = x \o <<"LF">>

\* The two texts differ by one such addition, in either direction.  Being
\* matched is an equivalence on texts, so what holds for one addition holds
\* for any number of them.
DiffersInTrailingOnly(x, y) ==
    \/ AddsTrailingSpace(x, y) \/ AddsTrailingSpace(y, x)
    \/ AddsTrailingLine(x, y) \/ AddsTrailingLine(y, x)

EqualPositions(x, y) ==
    {i \in 1..Len(x) : i <= Len(y) /\ x[i] = y[i]}

\* C30: on two different payloads bytes_total is the longer length,
\* bytes_matching the number of equal positions of the overlapping prefix,
\* the score is matching/total, and the verdict is matched iff the score is
\* at least the threshold; identical payloads are matched with score 1
\* whatever the threshold.
C30_ImageSimilarity ==
    imPc = "compared" =>
        IF imIn.expected = imIn.actual
          THEN /\ imOut.matched
               /\ imOut.score.num = imOut.score.den
          ELSE /\ imOut.bytes_total >= Len(imIn.expected)
               /\ imOut.bytes_total >= Len(imIn.actual)
               /\ imOut.bytes_total \in {Len(imIn.expected), Len(imIn.actual)}
               /\ imOut.bytes_matching
                     = Cardinality(EqualPositions(imIn.expected, imIn.actual))
               /\ imOut.score.num * imOut.bytes_total
                     = imOut.bytes_matching * imOut.score.den
               /\ imOut.matched <=>
                     imOut.score.num * imIn.threshold.den
                        >= imIn.threshold.num * imOut.score.den

\* C30 witness: payloads of different lengths that agree at two of three
\* positions were compared at the threshold 2/3, and matched.
C30_Witness ==
    /\ imPc = "compared"
    /\ Len(imIn.expected) = 3
    /\ Len(imIn.actual) = 2
    /\ imOut.bytes_total = 3
    /\ imOut.bytes_matching = 2
    /\ imIn.threshold = [num |-> 2, den |-> 3]
    /\ imOut.matched

\* C31: an error of dequeue, of set_status or of acknowledge never ends
\* run_worker.  A worker leaves the loop only in a step at whose end it has
\* been cancelled, and the only ways out of the 1 s wait of the outer
\* handler are back to dequeue or out through a cancellation.
C31_ErrorsNeverEndLoop ==
    [][\A w \in Workers :
         /\ (pc[w] # "done" /\ pc'[w] = "done") => cancelledAt'[w] # -1
         /\ (pc[w] = "sleep" /\ pc'[w] # "sleep") =>
               \/ pc'[w] = "dequeue"
               \/ pc'[w] = "done" /\ cancelledAt'[w] # -1]_vars

\* A worker that was never cancelled is in the wait of the outer handler
\* after its acknowledge raised: the entry it called XACK for is still
\* pending.
C31_Witness ==
    \E w \in Workers :
        /\ pc[w] = "sleep"
        /\ cancelledAt[w] = -1
        /\ \E m \in ackCalled : m \in pel

\* C32: the environment handed to container creation holds no variable whose
\* upper-cased name is on the blocklist, and holds every other variable that
\* was supplied to run, under the same name and with the same value.
C32_BlockedEnvNeverPassed ==
    evPc = "created" =>
        /\ \A key \in DOMAIN evOut : upper(key) \notin _BLOCKED_ENV_VARS
        /\ \A key \in DOMAIN evIn.env_vars :
              upper(key) \notin _BLOCKED_ENV_VARS =>
                  key \in DOMAIN evOut /\ evOut[key] = evIn.env_vars[key]
        /\ DOMAIN evOut \subseteq DOMAIN evIn.env_vars

\* run was given a blocklisted name in lower case, one in mixed case and two
\* harmless names: only the harmless ones were passed on.
C32_Witness ==
    /\ evPc = "created"
    /\ evIn.passed
    /\ {"ld_preload", "Path", "MY_VAR", "my_var"} \subseteq DOMAIN evIn.env_vars
    /\ DOMAIN evOut = {"MY_VAR", "my_var"}
    /\ evOut["MY_VAR"] # evOut["my_var"]

\* C33: every variable that prepare took from job.environment_spec.env and
\* that is not on the blocklist is set in the container process_job runs.
C33_PreparedEnvReachesContainer ==
    (evPc = "created" /\ evIn.caller = "process_job") =>
        \A key \in DOMAIN evIn.prepared :
            upper(key) \notin _BLOCKED_ENV_VARS =>
                key \in DOMAIN evOut /\ evOut[key] = evIn.prepared[key]

\* C34: process_job forwards the expected output's tolerance as the option
\* that sets the comparison tolerance.  For a numerical comparison made by
\* process_job with a tolerance, the verdict is then the one the comparator
\* gives with that tolerance as its absolute or as its relative tolerance.
C34_ToleranceSetsComparison ==
    (nuPc = "compared" /\ nuIn.caller = "process_job" /\ nuIn.has_tolerance) =>
        \/ nuOut.matched =
              NumericalCompare(nuIn.expected, nuIn.actual,
                               [atol |-> nuIn.kwargs.tolerance]).matched
        \/ nuOut.matched =
              NumericalCompare(nuIn.expected, nuIn.actual,
                               [rtol |-> nuIn.kwargs.tolerance]).matched

\* C35: within one call of run the backend operations come in a fixed
\* order.  The container is created only once every path of code_files and
\* data_files has passed the check and every file is written; it is created
\* at most once, started only after that, and waited on only once started,
\* with timeout policy.timeout_seconds; kill is called only after the wait
\* failed; logs and the /output archive are read only after the wait
\* returned a status or kill was called; and once the container is removed
\* run has ended and the backend is not touched again.
C35_BackendOrder ==
    [][/\ (backend = "none" /\ backend' # "none") =>
             /\ backend' = "created"
             /\ sbPc = "create"
             /\ codeDir /\ ~LoopRejects(sbIn.code)
             /\ sbIn.data # <<>> => dataDir /\ ~LoopRejects(sbIn.data)
       /\ (backend # "created" /\ backend' = "created") => backend = "none"
       /\ (backend # "started" /\ backend' = "started") =>
             backend = "created" /\ sbPc = "start"
       /\ waitStatus' # waitStatus =>
             /\ sbPc = "wait" /\ backend = "started"
             /\ waitStatus.kind = "none"
             /\ waitStatus'.timeout = sbIn.policy.timeout_seconds
       /\ (killCalled' /\ ~killCalled) =>
             sbPc = "kill" /\ waitStatus.kind \in WaitFailures
       /\ sbPc' \in {"logs_out", "logs_err", "get_archive"} =>
             waitStatus'.kind = "exited" \/ killCalled'
       /\ (sbPc' = "get_archive" /\ sbPc # "get_archive") => sbPc = "logs_err"
       /\ backend' = "removed" => sbPc' \in SbExits
       /\ backend = "removed" => backend' = "removed"]_vars

\* A call with data files and its own policy went through every backend
\* operation: the wait ran into its 30 s timeout, the container was killed,
\* logs and archive were read and the container was removed.
C35_Witness ==
    /\ sbPc = "returned"
    /\ backend = "removed"
    /\ sbIn.data # <<>>
    /\ sbIn.policy.timeout_seconds = 30
    /\ waitStatus.kind = "timeout" /\ waitStatus.timeout = 30
    /\ killCalled

\* C36: every name in SandboxResult.output_files comes from a regular-file
\* member of the archive and is a non-empty relative path: it does not start
\* with "/" and has no ".." component.
C36_OutputNamesRelative ==
    taPc = "extracted" =>
        \A f \in taOut :
            /\ taIn[f.member].type = "file"
            /\ f.name # <<"">>
            /\ ~startswith_slash(f.name)
            /\ ~has_dotdot(f.name)

\* C37: comparisons are made only when the runner reported success and the
\* job has expected outputs, one per expected output and in their order.  An
\* expected output that was not produced gets matched = false and score 0
\* and no call of a comparator; every other one gets exactly one call, the
\* calls being in the order of the expected outputs; and a result built
\* with a missing output among its comparisons has passed = false.
C37_ComparisonPerExpected ==
    clPc \in {"classify", "built"} =>
        LET comps == clOut.output_comparisons
            expected == clIn.expected_outputs
            calls == clOut.compare_calls
        IN /\ Len(comps) = IF clOut.success /\ expected # <<>>
                             THEN Len(expected) ELSE 0
           /\ Len(clOut.scores) = Len(comps)
           /\ comps = <<>> => calls = <<>>
           /\ \A i \in DOMAIN comps :
                 IF expected[i] = "missing"
                   THEN /\ ~comps[i]
                        /\ clOut.scores[i] = "0.0"
                        /\ \A k \in DOMAIN calls : calls[k] # i
                   ELSE /\ comps[i] = (expected[i] = "matched")
                        /\ Cardinality({k \in DOMAIN calls : calls[k] = i}) = 1
           /\ \A k \in DOMAIN calls :
                 /\ calls[k] \in DOMAIN comps
                 /\ \A l \in DOMAIN calls : k < l => calls[k] < calls[l]
           /\ (clPc = "built" /\ \E i \in DOMAIN comps : expected[i] = "missing")
                 => ~clOut.passed

\* A successful run with two expected outputs of which the second was not
\* produced: two comparisons, one call of a comparator, the verdict false.
C37_Witness ==
    /\ clPc = "built"
    /\ clOut.success /\ ~clIn.timed_out
    /\ clIn.expected_outputs = <<"matched", "missing">>
    /\ clOut.output_comparisons = <<TRUE, FALSE>>
    /\ clOut.scores = <<"comp_result.score", "0.0">>
    /\ clOut.compare_calls = <<1>>
    /\ ~clOut.passed

\* C38: with the backend reachable and the workers running and never
\* cancelled, every job whose enqueue completed eventually has a terminal
\* status and keeps one from then on.
C38_EnqueuedJobsFinish ==
    \A j \in Jobs : (subPc[j] = "done") ~> [](status[j] \in Terminal)

\* C39: whenever the stored status of a job is COMPLETED a result is stored
\* for it, and a stored result is never removed, so a reader that has seen
\* COMPLETED gets a result from any later get_result.
C39_CompletedHasResult ==
    /\ [](\A j \in JobIds : status[j] = "COMPLETED" => result[j] # NoResult)
    /\ [][\A j \in JobIds : result[j] # NoResult => result'[j] # NoResult]_vars

\* A job is COMPLETED with its result stored, its entry acknowledged and
\* the worker that processed it back at dequeue.
C39_Witness ==
    \E j \in Jobs :
        /\ status[j] = "COMPLETED"
        /\ result[j] # NoResult
        /\ pel = {}
        /\ \A w \in Workers : pc[w] = "dequeue"

\* C40: an entry appended before the consumer group exists is delivered.
\* The group is created before the first entry, so every entry up to the
\* group's read position has been delivered once; and a dequeue on a group
\* that exists leaves it in existence, as created, with a read position
\* that does not move back.
C40_EarlyEntriesDelivered ==
    /\ \A m \in 1..MaxAppends :
          (grLen >= m /\ ~grGroup.exists) ~>
              (\E i \in DOMAIN grLog : grLog[i].id = m)
    /\ [](\A i \in DOMAIN grLog : grLog[i].id = i)
    /\ [](grGroup.exists => grGroup.last_delivered = Len(grLog))
    /\ [][grGroup.exists =>
             /\ grGroup'.exists
             /\ grGroup'.created_at = grGroup.created_at
             /\ grGroup'.last_delivered >= grGroup.last_delivered]_vars

\* The group was created when the stream already held two entries; both
\* were delivered, by dequeues of different workers, the second of which
\* found the group in existence.
C40_Witness ==
    /\ grGroup.exists
    /\ grGroup.created_at = 2
    /\ Len(grLog) >= 2
    /\ grLog[1].id = 1 /\ grLog[2].id = 2
    /\ grLog[1].consumer # grLog[2].consumer

====
